---- MODULE Spec2Model ----
(***************************************************************************)
(* Verification model of crypto-supervisor.                                *)
(*                                                                         *)
(* Fifteen state machines share this module, each with its own             *)
(* specification:                                                          *)
(*   SpecDepth : BinanceConnector's order-book maintenance                 *)
(*               (snapshots, _router, _handle_depth, _resync_symbol)       *)
(*   SpecBook  : _init_book_from_snapshot / _apply_delta as pure functions *)
(*   SpecShape : the same book fed deltas with malformed pairs             *)
(*   SpecLife  : BinanceConnector.start / stop / _run_once life cycle      *)
(*               (LiveLife: the same with the progress the runtime gives)  *)
(*   SpecDisp  : TickHandler.handle_tick and its alert delivery, called by *)
(*               one connector per exchange                                *)
(*   SpecLock  : the Lock of a key under concurrent handle_tick calls      *)
(*               (LiveLock: the same with the progress the runtime gives)  *)
(*   SpecEvict : RedisStore evictions whose batch write fails              *)
(*   SpecWin   : RollingWindowMixin._push                                  *)
(*   SpecCool  : the cooldown gate of the alert engine and the monitors    *)
(*   SpecRoute : handle_tick with the state of the units it feeds          *)
(*   SpecStore : MemoryStore and RedisStore given the same update calls    *)
(*   SpecQueue, SpecFlow, SpecSpread : the add of the queue, flow and      *)
(*               spread monitor, each with its window and last_alert       *)
(*   SpecEngine: AlertEngine.check with its history and reference lookup   *)
(* Variables of a machine are left unchanged by the other machines.        *)
(***************************************************************************)
EXTENDS Integers, Sequences, FiniteSets, TLC

(***************************************************************************)
(* Bounds of the model and input domains                                   *)
(***************************************************************************)
\* largest update id the exchange hands out
MaxId == 3

\* largest value of start()'s attempt counter: no fault is injected beyond it
MaxAttempt == 4

\* number of messages the sockets of a connector deliver
MaxMsg == 3

\* cooldown: the first timestamp (clocks are epoch milliseconds, far above any
\* cooldown), the span of timestamps, and the number of qualifying conditions
Epoch == 2
MaxSpan == 2
MaxQual == 2

\* routing: number of handle_tick calls
MaxCalls == 2

\* stores: number of update calls
MaxUpd == 3

\* monitors: number of add calls
MaxAdd == 3
\* check calls of the price-move engine that are followed
MaxChk == 3

\* RollingWindowMixin: largest timestamp pushed, and number of pushes
MaxTs == 4
MaxPush == 4

\* main.create_connectors: one connector per configured exchange
Exchanges == {"binance", "coinbase_pro"}

\* BinanceConnector(symbols=...) : the configured symbols, in order
SymbolsCfg == <<"A", "B">>
Symbols == {SymbolsCfg[i] : i \in 1..Len(SymbolsCfg)}
Prices == {1, 2}
AskPrices == {2}
\* quantities on the wire: two-symbol runs (SpecDepth) and one-book runs (SpecBook)
Qtys == {0, 1}
QtysBook == {0, 1, 2}
\* event time of a depth message (msg["E"])
Times == {7}

\* Python's None, for a symbol; for a (price, qty) level
None == "None"
NoLevel == <<>>

\* depth_levels keyword default
DepthLevels == 20

Ids == 0..MaxId
\* [[price, qty], ...] lists of at most n levels over the prices P and quantities Q
LevelLists(P, Q, n) == UNION {[1..k -> P \X Q] : k \in 0..n}

\* two-symbol runs: bids over both prices, asks over one, quantities 0 and 1
DepthBidLists == LevelLists(Prices, Qtys, 1)
DepthAskLists == LevelLists(AskPrices, Qtys, 1)

\* the REST depth snapshot bodies (status 200)
Snapshots == [lastUpdateId : Ids, bids : DepthBidLists, asks : DepthAskLists]

\* a depthUpdate stream message
DepthMsg(sym, ts, first_id, final_id, bl, al) ==
  [e |-> "depthUpdate", s |-> sym, E |-> ts, U |-> first_id, u |-> final_id,
   b |-> bl, a |-> al]

\* the <<b, a>> lists of a delta in the two-symbol runs: at most one level in all
DepthLevelPairs ==
  (DepthBidLists \X {<<>>}) \cup ({<<>>} \X DepthAskLists)

\* one-book runs: richer quantities and longer lists, symbol "A" only
BookSnapshots ==
  [lastUpdateId : Ids, bids : LevelLists(Prices, QtysBook, 1),
   asks : LevelLists(Prices, QtysBook, 1)]

\* the <<b, a>> lists of a delta in the one-book runs: up to two bid levels, or
\* one ask level
BookLevelPairs ==
  (LevelLists(Prices, QtysBook, 2) \X {<<>>})
    \cup ({<<>>} \X LevelLists(Prices, QtysBook, 1))

VARIABLES
  \* ---- BinanceConnector order books (SpecDepth, SpecBook) ----
  bids,      \* self._bids     : symbol -> (price -> qty)
  asks,      \* self._asks
  last_id,   \* self._last_id  : symbol -> int
  rpc,       \* where the session is: "snap" | "recv" | "resync"
  snapIdx,   \* _download_all_snapshots: index of the next symbol to download
  rsym,      \* symbol whose resync download is in flight (rpc = "resync")
  outcome,   \* what the handler did with the last message: [kind, sym]
  out,       \* <<event>>: the DepthUpdate handed to message_handler for the last message
  dl,        \* snapshot downloads started while handling the last message, per symbol
  \* ---- history of the last message and of the book (not read by the program) ----
  cls,       \* the last delta against the cursor it met: [sym, gap, stale, upto]:
             \* upto is its last_id if first_id <= cursor + 1 <= last_id, else 0
  rsnap,     \* <<snap>>: the snapshot body the last completed resync downloaded
  snap0,     \* SpecBook: <<snap>>, the snapshot the book was initialised from
  cum,       \* SpecBook: per side and price <<q>>, the last quantity the deltas wrote, or <<>>
  nseq,      \* SpecBook: deltas applied since the snapshot (counted up to 2)
  loaded,    \* the symbols whose book was loaded from a snapshot in this session
  lsnap,     \* per symbol: <<snap>>, the snapshot loaded in this session, until the
             \* first delta of the session is examined; else <<>>
  lastu,     \* SpecBook: last_id of the last delta applied
  want       \* SpecShape: <<[bids, asks, upto]>>, the book the last delta asked for

VARIABLES
  \* ---- BinanceConnector life cycle (SpecLife, LiveLife) ----
  spc,         \* where start() is suspended, or how it ended
  attempt,     \* start(): attempt
  stop_event,  \* self._stop_event.is_set()
  stop_pc,     \* stop(): "idle" (not invoked) | "closing" (awaits ws.close) | "done"
  ws_ref,      \* self._ws: "None" | "ws" (the socket opened last)
  conn,        \* the socket opened last: "none" | "open" | "closing" | "closed"
  close_code,  \* the close code of that socket, 0 if no close frame was exchanged
  cancelled,   \* the task of start() was cancelled
  lastev,      \* what the last step of start() met
  slept,       \* <<>> or <<[attempt, d, before]>>: the last backoff sleep of start(),
               \* d seconds long, and the length of the one before it if it
               \* followed the fault before (else 0)
  wseq,        \* number of messages _router took from its sockets
  hopen,       \* the message whose event message_handler is processing (0: none)
  hlog,        \* the messages whose events were passed to message_handler, in order
  dropped      \* the messages _router dropped for a decode or shape fault

VARIABLES
  \* ---- TickHandler (SpecDisp) ----
  calls,       \* per connector: the handle_tick call it awaits, and how its last call ended
  lock         \* self._sem : (exchange, symbol) -> the connector whose call holds the Lock

depthVars == <<bids, asks, last_id, rpc, snapIdx, rsym, outcome, out, dl>>
sessVars == <<loaded, lsnap>>
histVars == <<cls, rsnap, snap0, cum, nseq, lastu, want, sessVars>>
msgVars == <<wseq, hopen, hlog, dropped>>
lifeVars == <<spc, attempt, stop_event, stop_pc, ws_ref, conn, close_code, cancelled, lastev, slept, msgVars>>

VARIABLES
  \* ---- RollingWindowMixin (SpecWin) ----
  whist,       \* self._hist : symbol -> deque of <<ts, val>>
  wlast,       \* the arguments of the last _push: <<>> or <<[sym, ts]>>
  npush        \* number of _push calls made

VARIABLES
  \* ---- cooldown of the alerting units (SpecCool) ----
  last_alert,  \* AlertEngine.last_alert and the monitors' last_alert, by key (0: no entry)
  sending,     \* per connector: <<>> or <<key>>, the key whose alert its call is sending
  emits,       \* per key: the times at which an alert was emitted
  qseen,       \* per key: a qualifying condition was met before
  failed,      \* per key: a delivery of an alert of the key failed
  lastq,       \* the last qualifying condition: <<>> or <<[key, t, emitted, first, early]>>
  nqual        \* number of qualifying conditions met

VARIABLES
  \* ---- handle_tick with the units it feeds (SpecRoute) ----
  sink_n,      \* number of file_sink.add calls made
  store,       \* MemoryStore._store : (exchange, symbol) -> <<>> or <<[price, timestamp]>>
  history,     \* AlertEngine.history : (exchange, symbol) -> deque of <<ts, price>>
  elast,       \* AlertEngine.last_alert : (exchange, symbol, tag) -> ts (0: no entry)
  mhist,       \* per monitor: RollingWindowMixin._hist : symbol -> deque of <<ts, val>>
  mlast,       \* per monitor: last_alert : symbol -> ms (0: no entry)
  rc,          \* per connector: the frame of its handle_tick call in progress
  done,        \* <<the call that returned in the last step>>, or <<>>
  actor,       \* the connector whose call made the last step
  ncalls       \* number of handle_tick calls made

VARIABLES
  \* ---- MemoryStore and RedisStore side by side (SpecStore) ----
  mem,         \* MemoryStore._store : (exchange, symbol) -> <<>> or <<[price, timestamp]>>
  hot,         \* RedisStore._local : (exchange, symbol) -> <<>> or <<[price, timestamp]>>
  cold,        \* the Redis database : key -> <<>> or <<value>>
  lastcall,    \* per (exchange, symbol): <<>> or <<the arguments of its last update>>
  supd,        \* <<>> or <<the (exchange, symbol) of the last update>>
  sev,         \* <<>> or <<[rss, later]>>: what _maybe_evict sampled in the last update
  nup          \* number of update calls made

VARIABLES
  \* ---- the three monitors with their samples (SpecQueue, SpecFlow, SpecSpread) ----
  qhist,       \* QueueImbalanceMonitor._hist : symbol -> deque of <<ts, q>>
  qlast,       \* QueueImbalanceMonitor.last_alert : symbol -> ms (0: no entry)
  fhist,       \* FlowImbalanceMonitor._hist : symbol -> deque of <<ts, notion>>
  flast,       \* FlowImbalanceMonitor.last_alert : symbol -> ms (0: no entry)
  shist,       \* SpreadStressMonitor._hist : symbol -> deque of <<ts, spread>>
  slast,       \* SpreadStressMonitor.last_alert : symbol -> ms (0: no entry)
  mres,        \* <<>> or <<what the last add met and did>>
  nadd         \* number of add calls made

VARIABLES
  \* ---- AlertEngine.check on its own (SpecEngine) ----
  ehist,       \* AlertEngine.history : (exchange, symbol) -> deque of <<ts, price>>
  etag,        \* AlertEngine.last_alert : (exchange, symbol, tag) -> ts (0: no entry)
  eres,        \* <<>> or <<what the last check found and returned>>
  nchk         \* number of check calls made

VARIABLES
  \* ---- the Lock of a key under concurrent handle_tick calls (SpecLock, LiveLock) ----
  tcall,       \* per task: its handle_tick call: [pc, key, left, nsent, waited, res]
  holder,      \* per key: the task whose call is inside "async with sem" ("None": free)
  waitq        \* per key: the tasks suspended in the Lock's acquire, first come first

dispVars == <<calls, lock>>
lockVars == <<tcall, holder, waitq>>
engVars == <<ehist, etag, eres, nchk>>
monVars == <<qhist, qlast, fhist, flast, shist, slast, mres, nadd>>
storeVars == <<mem, hot, cold, lastcall, supd, sev, nup>>
winVars == <<whist, wlast, npush>>
coolVars == <<last_alert, sending, emits, qseen, failed, lastq, nqual>>
routeVars == <<sink_n, store, history, elast, mhist, mlast, rc, done, actor, ncalls>>

\* the units that handle_tick feeds, each a machine of its own
partVars == <<winVars, coolVars, routeVars, storeVars, monVars, engVars>>

vars == <<depthVars, histVars, lifeVars, dispVars, partVars, lockVars>>

\* what a machine leaves alone: the variables of the other machines
depthOthers == <<lifeVars, dispVars, partVars, lockVars>>
lifeOthers == <<depthVars, histVars, dispVars, partVars, lockVars>>
dispOthers == <<depthVars, histVars, lifeVars, partVars, lockVars>>
coreVars == <<depthVars, histVars, lifeVars, dispVars, lockVars>>
winOthers == <<coreVars, coolVars, routeVars, storeVars, monVars, engVars>>
coolOthers == <<coreVars, winVars, routeVars, storeVars, monVars, engVars>>
routeOthers == <<coreVars, winVars, coolVars, storeVars, monVars, engVars>>
storeOthers == <<coreVars, winVars, coolVars, routeVars, monVars, engVars>>
monOthers == <<coreVars, winVars, coolVars, routeVars, storeVars, engVars>>
engOthers == <<coreVars, winVars, coolVars, routeVars, storeVars, monVars>>
lockOthers == <<depthVars, histVars, lifeVars, dispVars, partVars>>

(***************************************************************************)
(* dict helpers                                                            *)
(***************************************************************************)
EmptyDict == [x \in {} |-> 0]

\* d[k] = v
DictSet(d, k, v) == [x \in (DOMAIN d) \cup {k} |-> IF x = k THEN v ELSE d[x]]

\* d.pop(k, None)
DictPop(d, k) == [x \in (DOMAIN d) \ {k} |-> d[x]]

(***************************************************************************)
(* _init_book_from_snapshot: {float(p): float(q) for p, q in levels        *)
(*                            if float(q) > 0}                             *)
(***************************************************************************)
RECURSIVE SnapshotSideAll(_, _)
\* variant: the comprehension without its "if float(q) > 0"
SnapshotSideAll(levels, acc) ==
  IF levels = <<>> THEN acc
  ELSE SnapshotSideAll(Tail(levels), DictSet(acc, Head(levels)[1], Head(levels)[2]))

RECURSIVE SnapshotSide(_, _)
SnapshotSide(levels, acc) ==
  IF levels = <<>> THEN acc
  ELSE LET p == Head(levels)[1]
           q == Head(levels)[2]
       IN SnapshotSide(Tail(levels), IF q > 0 THEN DictSet(acc, p, q) ELSE acc)

(***************************************************************************)
(* _apply_delta, one side: qty == 0 pops the level, otherwise it is set    *)
(***************************************************************************)
\* variant: a zero quantity is stored instead of removing the level
ApplyLevelKeepZero(side, p, q) == DictSet(side, p, q)

ApplyLevel(side, p, q) ==
  IF q = 0 THEN DictPop(side, p) ELSE DictSet(side, p, q)

RECURSIVE ApplySide(_, _)
ApplySide(side, levels) ==
  IF levels = <<>> THEN side
  ELSE ApplySide(ApplyLevel(side, Head(levels)[1], Head(levels)[2]), Tail(levels))

(***************************************************************************)
(* _top_of_book: None for an empty side, else max / min of items() by      *)
(* price, scanned item by item as Python's max / min do                    *)
(***************************************************************************)
RECURSIVE ScanBest(_, _, _, _)
ScanBest(side, todo, best, isBid) ==
  IF todo = {} THEN <<best, side[best]>>
  ELSE LET p == CHOOSE x \in todo : TRUE
           better == IF isBid THEN p > best ELSE p < best
       IN ScanBest(side, todo \ {p}, IF better THEN p ELSE best, isBid)

\* variant: the first item of the side is taken for the best one
TopOfBookFirst(side, isBid) ==
  IF DOMAIN side = {} THEN NoLevel
  ELSE LET p0 == CHOOSE x \in DOMAIN side : TRUE
       IN <<p0, side[p0]>>

TopOfBook(side, isBid) ==
  IF DOMAIN side = {} THEN NoLevel
  ELSE LET p0 == CHOOSE x \in DOMAIN side : TRUE
       IN ScanBest(side, (DOMAIN side) \ {p0}, p0, isBid)

(***************************************************************************)
(* sorted(side.items(), key=...)[: depth_levels]                           *)
(***************************************************************************)
RECURSIVE SortedItems(_, _)
SortedItems(side, isBid) ==
  IF DOMAIN side = {} THEN <<>>
  ELSE LET top == TopOfBook(side, isBid)
       IN <<top>> \o SortedItems(DictPop(side, top[1]), isBid)

Truncate(s, n) == IF Len(s) <= n THEN s ELSE SubSeq(s, 1, n)

\* the normalised depth event of _handle_depth; price is the mid (b + a) / 2,
\* kept as the fraction <<numerator, denominator>>
DepthEvent(sym, ts, bb, ba, bside, aside) ==
  [event |-> "depth", exchange |-> "binance", symbol |-> sym, timestamp |-> ts,
   best_bid |-> bb, best_ask |-> ba, price |-> <<bb[1] + ba[1], 2>>,
   bids |-> IF DepthLevels # 0 THEN Truncate(SortedItems(bside, TRUE), DepthLevels) ELSE <<>>,
   asks |-> IF DepthLevels # 0 THEN Truncate(SortedItems(aside, FALSE), DepthLevels) ELSE <<>>]

NoDownloads == [s \in Symbols |-> 0]
NoOutcome == [kind |-> "none", sym |-> None]
NoCls == [sym |-> None, gap |-> FALSE, stale |-> FALSE, upto |-> 0]
NoCum == [side \in {"b", "a"} |-> [p \in Prices |-> <<>>]]

(***************************************************************************)
(* BinanceConnector.__init__ : no stop requested, no socket; the task of   *)
(* start() is created and has not run yet                                  *)
(***************************************************************************)
LifeInit ==
  /\ spc = "init"
  /\ attempt = 0
  /\ stop_event = FALSE
  /\ stop_pc = "idle"
  /\ ws_ref = None
  /\ conn = "none"
  /\ close_code = 0
  /\ cancelled = FALSE
  /\ lastev = "none"
  /\ slept = <<>>
  /\ wseq = 0
  /\ hopen = 0
  /\ hlog = <<>>
  /\ dropped = {}

(***************************************************************************)
(* RollingWindowMixin.__init__ : window_ms, and no buffer                  *)
(***************************************************************************)
WindowMs == 2

WindowInit ==
  /\ whist = [s \in Symbols |-> <<>>]
  /\ wlast = <<>>
  /\ npush = 0

(***************************************************************************)
(* AlertEngine.__init__ and the monitors' __init__ : cooldown_ms, and an   *)
(* empty last_alert map (read with a default of 0)                         *)
(***************************************************************************)
CooldownMs == 2

CoolSymbols == {"A"}
WindowTags == {"24h", "short"}
MonitorUnits == {"flow", "spread", "queue"}
\* AlertEngine: tag = (exchange, symbol, window tag)
EngineKeys == Exchanges \X CoolSymbols \X WindowTags
\* each monitor has a map of its own, keyed by symbol
MonitorKeys == MonitorUnits \X CoolSymbols \X {"sym"}
CoolKeys == EngineKeys \cup MonitorKeys
CoolTimes == Epoch..(Epoch + MaxSpan)

CoolInit ==
  /\ last_alert = [k \in CoolKeys |-> 0]
  /\ sending = [c \in Exchanges |-> <<>>]
  /\ emits = [k \in CoolKeys |-> {}]
  /\ qseen = [k \in CoolKeys |-> FALSE]
  /\ failed = [k \in CoolKeys |-> FALSE]
  /\ lastq = <<>>
  /\ nqual = 0

(***************************************************************************)
(* TickHandler.__init__ : an empty store, an engine and three monitors     *)
(* without history, a sink that was not called                             *)
(***************************************************************************)
RouteKeys == Exchanges \X CoolSymbols
RoutePrices == {1, 2}
\* event times and clock readings of a routing run: they fall in one
\* millisecond, so a cooldown passes for the first alert of a key and for no
\* later one
RouteTimes == {Epoch}

\* an event as handle_tick reads it.  pk tells what float(data["price"]) does:
\* "num" (it gives price), "bad" (TypeError or ValueError), "missing" (KeyError)
RouteEvents(c) ==
  [event : {"ticker", "trade", "depth"}, exchange : {c}, symbol : CoolSymbols,
   pk : {"num"}, price : RoutePrices, timestamp : RouteTimes]
  \cup
  [event : {"ticker", "trade", "depth"}, exchange : {c}, symbol : CoolSymbols,
   pk : {"bad", "missing"}, price : {0}, timestamp : RouteTimes]

NoRouteEvent ==
  [event |-> None, exchange |-> None, symbol |-> None, pk |-> None, price |-> 0,
   timestamp |-> 0]

\* pc: "idle" | "spread_send" (the spread monitor awaits its send) | "last_send"
\* (the flow or queue monitor awaits its send) | "deliver" (the delivery loop);
\* feeds: the units the call has fed, in order; found: the alerts
\* alert_engine.check returned; handed: those passed to _dispatch_with_retry;
\* sink_ok: file_sink.add returned; res: "none" | "returned" | "raised"
IdleRoute ==
  [pc |-> "idle", ev |-> NoRouteEvent, feeds |-> <<>>, found |-> 0, handed |-> 0,
   sink_ok |-> TRUE, fault |-> FALSE, res |-> "none"]

RouteInit ==
  /\ sink_n = 0
  /\ store = [k \in RouteKeys |-> <<>>]
  /\ history = [k \in RouteKeys |-> <<>>]
  /\ elast = [k \in EngineKeys |-> 0]
  /\ mhist = [u \in MonitorUnits |-> [s \in CoolSymbols |-> <<>>]]
  /\ mlast = [u \in MonitorUnits |-> [s \in CoolSymbols |-> 0]]
  /\ rc = [c \in Exchanges |-> IdleRoute]
  /\ done = <<>>
  /\ actor = None
  /\ ncalls = 0

\* RedisStore.__init__: hot_window_ms
HotMs == 1

\* RedisStore.__init__: max_memory_bytes
MaxBytes == 2

\* _redis_key: f"tick:{exchange}:{symbol}", the text as its parts (no name of
\* an exchange or a symbol holds a colon)
RedisKey(exchange, symbol) == <<"tick", exchange, symbol>>

RedisKeys == {RedisKey(k[1], k[2]) : k \in RouteKeys}

\* MemoryStore.__init__, RedisStore.__init__ with an empty database
StoreInit ==
  /\ mem = [k \in RouteKeys |-> <<>>]
  /\ hot = [k \in RouteKeys |-> <<>>]
  /\ cold = [rk \in RedisKeys |-> <<>>]
  /\ lastcall = [k \in RouteKeys |-> <<>>]
  /\ supd = <<>>
  /\ sev = <<>>
  /\ nup = 0

\* construction of the units handle_tick feeds
\* the monitors' __init__: no buffer, no alert yet
MonInit ==
  /\ qhist = [s \in CoolSymbols |-> <<>>]
  /\ qlast = [s \in CoolSymbols |-> 0]
  /\ fhist = [s \in CoolSymbols |-> <<>>]
  /\ flast = [s \in CoolSymbols |-> 0]
  /\ shist = [s \in CoolSymbols |-> <<>>]
  /\ slast = [s \in CoolSymbols |-> 0]
  /\ mres = <<>>
  /\ nadd = 0

\* AlertEngine.__init__: history = {}, last_alert = {}
EngInit ==
  /\ ehist = [k \in RouteKeys |-> <<>>]
  /\ etag = [k \in EngineKeys |-> 0]
  /\ eres = <<>>
  /\ nchk = 0

PartsInit == WindowInit /\ CoolInit /\ RouteInit /\ StoreInit /\ MonInit /\ EngInit

(***************************************************************************)
(* TickHandler.__init__ : no Lock exists (none is held); no call is open   *)
(***************************************************************************)
Keys == Exchanges \X Symbols
NoEvent == [exchange |-> None, symbol |-> None, event |-> None]
IdleCall ==
  [pc |-> "idle", ev |-> NoEvent, unit |-> None, left |-> 0, nsent |-> 0,
   okseen |-> FALSE, res |-> "none", fault |-> FALSE, abandoned |-> "no"]

\* the tasks that call handle_tick at the same time, and the keys of their tickers
Tasks == {"t1", "t2", "t3"}
LockKeys == {<<"binance", "A">>, <<"binance", "B">>}
IdleTask ==
  [pc |-> "idle", key |-> <<None, None>>, left |-> 0, nsent |-> 0,
   waited |-> FALSE, res |-> "none"]

HandlerInit ==
  /\ calls = [c \in Exchanges |-> IdleCall]
  /\ lock = [k \in Keys |-> None]
  /\ tcall = [t \in Tasks |-> IdleTask]
  /\ holder = [k \in LockKeys |-> None]
  /\ waitq = [k \in LockKeys |-> <<>>]

(***************************************************************************)
(* BinanceConnector.__init__ : empty books, last id 0                      *)
(***************************************************************************)
ConnectorInit ==
  /\ bids = [s \in Symbols |-> EmptyDict]
  /\ asks = [s \in Symbols |-> EmptyDict]
  /\ last_id = [s \in Symbols |-> 0]
  /\ rsym = None
  /\ outcome = NoOutcome
  /\ out = <<>>
  /\ dl = NoDownloads

\* no snapshot of this session is held
NoSnaps == [s \in Symbols |-> <<>>]

HistInit ==
  /\ cls = NoCls
  /\ rsnap = <<>>
  /\ snap0 = <<>>
  /\ cum = NoCum
  /\ nseq = 0
  /\ lastu = 0
  /\ want = <<>>
  /\ loaded = {}
  /\ lsnap = NoSnaps

\* _init_book_from_snapshot(cfg_sym, snap): the three assignments, no await between
InitBookFromSnapshot(sym, snap) ==
  /\ bids' = [bids EXCEPT ![sym] = SnapshotSide(snap.bids, EmptyDict)]
  /\ asks' = [asks EXCEPT ![sym] = SnapshotSide(snap.asks, EmptyDict)]
  /\ last_id' = [last_id EXCEPT ![sym] = snap.lastUpdateId]

\* variant: the comparison is strict
IsStaleStrict(m, cur_last) == m.u < cur_last

\* _handle_depth, step 1 of the code: last_id <= cur_last
IsStale(m, cur_last) == m.u <= cur_last

\* variant: no gap check at all
IsGapNever(m, cur_last) == FALSE

\* variant: a delta that skips one update id is accepted
IsGapLate(m, cur_last) == ~(m.U <= cur_last + 2 /\ cur_last + 1 <= m.u)

\* _handle_depth, step 2 of the code: not (first_id <= cur_last + 1 <= last_id)
IsGap(m, cur_last) == ~(m.U <= cur_last + 1 /\ cur_last + 1 <= m.u)

\* _router + _handle_depth for one depthUpdate message, up to its return or
\* to its suspension in _resync_symbol
HandleDepth(m) ==
  /\ rpc = "recv"
  /\ LET sym == m.s
         cur_last == last_id[sym]
     IN IF IsStale(m, cur_last)
          THEN /\ outcome' = [kind |-> "stale", sym |-> sym]
               /\ out' = <<>>
               /\ dl' = NoDownloads
               /\ UNCHANGED <<bids, asks, last_id, rpc, snapIdx, rsym>>
        ELSE IF IsGap(m, cur_last)
          THEN /\ rpc' = "resync"
               /\ rsym' = sym
               /\ dl' = [NoDownloads EXCEPT ![sym] = 1]
               /\ outcome' = [kind |-> "gap", sym |-> sym]
               /\ out' = <<>>
               /\ UNCHANGED <<bids, asks, last_id, snapIdx>>
        ELSE LET nb == ApplySide(bids[sym], m.b)
                 na == ApplySide(asks[sym], m.a)
                 best_bid == TopOfBook(nb, TRUE)
                 best_ask == TopOfBook(na, FALSE)
             IN /\ bids' = [bids EXCEPT ![sym] = nb]
                /\ asks' = [asks EXCEPT ![sym] = na]
                /\ last_id' = [last_id EXCEPT ![sym] = m.u]
                /\ dl' = NoDownloads
                /\ IF best_bid = NoLevel \/ best_ask = NoLevel
                     THEN /\ out' = <<>>
                          /\ outcome' = [kind |-> "incomplete", sym |-> sym]
                     ELSE /\ out' = <<DepthEvent(sym, m.E, best_bid, best_ask, nb, na)>>
                          /\ outcome' = [kind |-> "emitted", sym |-> sym]
                /\ UNCHANGED <<rpc, snapIdx, rsym>>

\* _apply_delta left by float() raising at pair idx of one list: the pairs
\* before it were written into the dicts, the bids' loop before the asks'
ApplyDeltaUntil(b, a, m, side, idx) ==
  IF side = "b"
    THEN [bids |-> ApplySide(b, SubSeq(m.b, 1, idx - 1)), asks |-> a]
    ELSE [bids |-> ApplySide(b, m.b),
          asks |-> ApplySide(a, SubSeq(m.a, 1, idx - 1))]

\* _router + _handle_depth for a depthUpdate message that passes steps 1 and 2
\* and whose pair idx of list `side` is not a pair of numbers: _apply_delta
\* raises, line 270 is not reached, _router's except drops the message
HandleDepthFaulty(m, side, idx) ==
  /\ rpc = "recv"
  /\ ~IsStale(m, last_id[m.s])
  /\ ~IsGap(m, last_id[m.s])
  /\ LET part == ApplyDeltaUntil(bids[m.s], asks[m.s], m, side, idx)
     IN /\ bids' = [bids EXCEPT ![m.s] = part.bids]
        /\ asks' = [asks EXCEPT ![m.s] = part.asks]
  /\ outcome' = [kind |-> "fault", sym |-> m.s]
  /\ out' = <<>>
  /\ dl' = NoDownloads
  /\ UNCHANGED <<last_id, rpc, snapIdx, rsym>>

\* the delta against the cursor it meets, in the words of the exchange's protocol
Classify(m) ==
  [sym |-> m.s, gap |-> m.U > last_id[m.s] + 1, stale |-> m.u <= last_id[m.s],
   upto |-> IF m.U <= last_id[m.s] + 1 /\ last_id[m.s] + 1 <= m.u THEN m.u ELSE 0]

(***************************************************************************)
(* SpecDepth: sessions of a two-symbol connector                           *)
(***************************************************************************)
DepthInit ==
  /\ ConnectorInit
  /\ HistInit
  /\ LifeInit
  /\ HandlerInit
  /\ PartsInit
  /\ rpc = "snap"
  /\ snapIdx = 1

\* _run_once with the socket opened as soon as one snapshot is there
LastSymbolAny(idx) == TRUE

\* _download_all_snapshots: "for cfg_sym in self.symbols_cfg" is through, and
\* only then _run_once goes on to connect
LastSymbol(idx) == idx = Len(SymbolsCfg)

\* _download_all_snapshots: one symbol's snapshot arrives with status 200
SnapshotLoaded ==
  /\ rpc = "snap"
  /\ \E snap \in Snapshots :
       /\ InitBookFromSnapshot(SymbolsCfg[snapIdx], snap)
       /\ lsnap' = [lsnap EXCEPT ![SymbolsCfg[snapIdx]] = <<snap>>]
  /\ loaded' = loaded \cup {SymbolsCfg[snapIdx]}
  /\ IF LastSymbol(snapIdx)
       THEN rpc' = "recv" /\ snapIdx' = 1
       ELSE rpc' = "snap" /\ snapIdx' = snapIdx + 1
  /\ outcome' = NoOutcome
  /\ out' = <<>>
  /\ dl' = NoDownloads
  /\ cls' = NoCls
  /\ rsnap' = <<>>
  /\ UNCHANGED <<rsym, snap0, cum, nseq, lastu, want, depthOthers>>

\* _download_all_snapshots: status != 200 or a transport error; start() begins
\* a new session, which downloads every snapshot again
SnapshotFailed ==
  /\ rpc = "snap"
  /\ rpc' = "snap"
  /\ snapIdx' = 1
  /\ loaded' = {}
  /\ lsnap' = NoSnaps
  /\ UNCHANGED <<bids, asks, last_id, rsym, outcome, out, dl, depthOthers>>
  /\ UNCHANGED <<cls, rsnap, snap0, cum, nseq, lastu, want>>

\* the stream closes or drops while the router waits: the next session begins
SessionEnded ==
  /\ rpc = "recv"
  /\ rpc' = "snap"
  /\ snapIdx' = 1
  /\ outcome' = NoOutcome
  /\ out' = <<>>
  /\ dl' = NoDownloads
  /\ cls' = NoCls
  /\ rsnap' = <<>>
  /\ loaded' = {}
  /\ lsnap' = NoSnaps
  /\ UNCHANGED <<bids, asks, last_id, rsym, snap0, cum, nseq, lastu, want, depthOthers>>

\* a depthUpdate message arrives and is routed to _handle_depth
RecvDepth ==
  \E sym \in Symbols, ts \in Times, first_id \in 1..MaxId, ba \in DepthLevelPairs :
    \E final_id \in first_id..MaxId :
      LET m == DepthMsg(sym, ts, first_id, final_id, ba[1], ba[2])
      IN /\ HandleDepth(m)
         /\ cls' = Classify(m)
         /\ rsnap' = <<>>
         /\ lsnap' = NoSnaps
         /\ UNCHANGED <<loaded, snap0, cum, nseq, lastu, want, depthOthers>>

\* _resync_symbol: the snapshot arrives and replaces the book; _handle_depth returns
ResyncLoaded ==
  /\ rpc = "resync"
  /\ \E snap \in Snapshots :
       /\ InitBookFromSnapshot(rsym, snap)
       /\ rsnap' = <<snap>>
  /\ rpc' = "recv"
  /\ rsym' = None
  /\ outcome' = [kind |-> "resynced", sym |-> rsym]
  /\ UNCHANGED <<snapIdx, out, dl, cls, snap0, cum, nseq, lastu, want, sessVars, depthOthers>>

\* _resync_symbol raises (transport error, undecodable body, error body without
\* "bids"): nothing was assigned; _router's except drops the message
ResyncFailed ==
  /\ rpc = "resync"
  /\ rpc' = "recv"
  /\ rsym' = None
  /\ outcome' = [kind |-> "resync_failed", sym |-> rsym]
  /\ UNCHANGED <<bids, asks, last_id, snapIdx, out, dl, histVars, depthOthers>>

DepthNext ==
  \/ SnapshotLoaded
  \/ SnapshotFailed
  \/ SessionEnded
  \/ RecvDepth
  \/ ResyncLoaded
  \/ ResyncFailed

SpecDepth == DepthInit /\ [][DepthNext]_vars

(***************************************************************************)
(* SpecBook: one book, a snapshot and then deltas with contiguous ids      *)
(***************************************************************************)
BookInit ==
  /\ ConnectorInit
  /\ HistInit
  /\ LifeInit
  /\ HandlerInit
  /\ PartsInit
  /\ rpc = "snap"
  /\ snapIdx = 1

\* <<q>> for the quantity q the last pair of `levels` at price p carries, <<>> when
\* none does
LastWritten(levels, p) ==
  LET idx == {i \in 1..Len(levels) : levels[i][1] = p}
  IN IF idx = {} THEN <<>>
     ELSE <<levels[CHOOSE i \in idx : \A j \in idx : j <= i][2]>>

\* the cumulative diff extended by one more delta
CumMerge(c, m) ==
  [side \in {"b", "a"} |->
     [p \in Prices |->
        LET w == LastWritten(IF side = "b" THEN m.b ELSE m.a, p)
        IN IF w = <<>> THEN c[side][p] ELSE w]]

\* the snapshot for the one symbol is loaded
BookSnapshot ==
  /\ rpc = "snap"
  /\ \E snap \in BookSnapshots :
       /\ InitBookFromSnapshot("A", snap)
       /\ snap0' = <<snap>>
       /\ lsnap' = [lsnap EXCEPT !["A"] = <<snap>>]
  /\ loaded' = loaded \cup {"A"}
  /\ rpc' = "recv"
  /\ UNCHANGED <<snapIdx, rsym, outcome, out, dl, cls, rsnap, cum, nseq, lastu, want, depthOthers>>

\* the next delta of the stream, first_id = last_update_id + 1, is handled
BookDelta ==
  \E ts \in Times, final_id \in (last_id["A"] + 1)..MaxId, ba \in BookLevelPairs :
    LET m == DepthMsg("A", ts, last_id["A"] + 1, final_id, ba[1], ba[2])
    IN /\ HandleDepth(m)
       /\ cls' = Classify(m)
       /\ cum' = CumMerge(cum, m)
       /\ nseq' = IF nseq < 2 THEN nseq + 1 ELSE nseq
       /\ lastu' = m.u
       /\ lsnap' = NoSnaps
       /\ UNCHANGED <<loaded, rsnap, snap0, want, depthOthers>>

BookNext ==
  \/ BookSnapshot
  \/ BookDelta

SpecBook == BookInit /\ [][BookNext]_vars

(***************************************************************************)
(* SpecShape: one book, a snapshot and then deltas with contiguous ids,    *)
(* some of which carry a pair that is not a pair of numbers                *)
(***************************************************************************)
\* the <<b, a>> lists of a delta: up to two bid levels and up to one ask level
ShapeLevelPairs == LevelLists(Prices, Qtys, 2) \X DepthAskLists

\* the positions of delta m at which a malformed pair can stand
FaultPositions(m) ==
  ({"b"} \X (1..Len(m.b))) \cup ({"a"} \X (1..Len(m.a)))

\* the book and the cursor after the whole of delta m
WantOf(m) ==
  <<[bids |-> ApplySide(bids[m.s], m.b), asks |-> ApplySide(asks[m.s], m.a),
     upto |-> m.u]>>

\* the snapshot for the one symbol is loaded (the histories of SpecBook are
\* not kept in these runs)
ShapeSnapshot ==
  /\ rpc = "snap"
  /\ \E snap \in BookSnapshots : InitBookFromSnapshot("A", snap)
  /\ rpc' = "recv"
  /\ UNCHANGED <<snapIdx, rsym, outcome, out, dl, histVars, depthOthers>>

\* the next delta of the stream, well formed, is handled
ShapeDelta ==
  \E ts \in Times, final_id \in (last_id["A"] + 1)..MaxId, ba \in ShapeLevelPairs :
    LET m == DepthMsg("A", ts, last_id["A"] + 1, final_id, ba[1], ba[2])
    IN /\ HandleDepth(m)
       /\ cls' = Classify(m)
       /\ want' = WantOf(m)
       /\ UNCHANGED <<sessVars, rsnap, snap0, cum, nseq, lastu, depthOthers>>

\* the next delta of the stream carries a malformed pair
ShapeDeltaFaulty ==
  \E ts \in Times, final_id \in (last_id["A"] + 1)..MaxId, ba \in ShapeLevelPairs :
    LET m == DepthMsg("A", ts, last_id["A"] + 1, final_id, ba[1], ba[2])
    IN \E pos \in FaultPositions(m) :
         /\ HandleDepthFaulty(m, pos[1], pos[2])
         /\ cls' = Classify(m)
         /\ want' = WantOf(m)
         /\ UNCHANGED <<sessVars, rsnap, snap0, cum, nseq, lastu, depthOthers>>

ShapeNext ==
  \/ ShapeSnapshot
  \/ ShapeDelta
  \/ ShapeDeltaFaulty

SpecShape == BookInit /\ [][ShapeNext]_vars

(***************************************************************************)
(* SpecLife : BinanceConnector.start / stop / _run_once / _router as one   *)
(* task and its environment.  spc is the await at which start() is         *)
(* suspended: "sleep" (line 128), "snap" (_download_all_snapshots),        *)
(* "connect" (line 153), "subscribe" (line 192), "recv" (the async for of  *)
(* _router), "handling" (a handler of _router awaits the message handler   *)
(* or a resync download); or how start() ended: "returned", "cancelled"    *)
(* (CancelledError left start()), "raised" (another exception left it).    *)
(***************************************************************************)
NormalClosure == 1000

Suspended == {"sleep", "snap", "connect", "subscribe", "recv", "handling"}
InSocket == {"subscribe", "recv", "handling"}

\* BinanceConnector(reconnect_delay=5): self.base_delay, in seconds
BaseDelay == 5
\* start(): the cap of the backoff, in seconds
BackoffCap == 60

RECURSIVE Pow2(_)
Pow2(k) == IF k = 0 THEN 1 ELSE 2 * Pow2(k - 1)

\* start() with the delay growing without a cap
BackoffUncapped(a) == BaseDelay * Pow2(a)

\* start(): backoff = min(self.base_delay * 2 ** attempt, 60)
Backoff(a) ==
  IF BaseDelay * Pow2(a) < BackoffCap THEN BaseDelay * Pow2(a) ELSE BackoffCap

\* start(): jitter = random.uniform(0, backoff * 0.2): both ends and the middle
Jitters(b) == {0, b \div 10, (2 * b) \div 10}

\* start(): the head of the while loop up to the next await
LoopPc(a) ==
  IF stop_event THEN "returned"
  ELSE IF a > 0 THEN "sleep"
  ELSE "snap"

\* start() without its except clause: the exception leaves start()
StartNoExcept(ev) ==
  /\ attempt' = attempt
  /\ spc' = "raised"
  /\ lastev' = ev

\* start(): except Exception: attempt += 1, then the loop head
StartExcept(ev) ==
  /\ attempt' = attempt + 1
  /\ spc' = LoopPc(attempt + 1)
  /\ lastev' = ev

\* leaving "async with connect(...)": the socket is closed if it still is open
ExitSocket ==
  /\ conn' = "closed"
  /\ close_code' = IF conn \in {"open", "closing"} THEN NormalClosure ELSE close_code

\* _router with the handler started as a task of its own: the loop goes on
RouterDispatchSpawn == "recv"

\* _router: await self._handle_...(msg): the loop waits for the handler
RouterDispatch == "handling"

\* the task starts to run: start() up to its first await
TaskStart ==
  /\ spc = "init"
  /\ spc' = LoopPc(0)
  /\ lastev' = "start"
  /\ UNCHANGED <<attempt, stop_event, stop_pc, ws_ref, conn, close_code, cancelled>>
  /\ UNCHANGED msgVars
  /\ UNCHANGED <<slept, lifeOthers>>

\* start(): the backoff sleep of backoff + jitter seconds is over; _run_once()
\* is called without a look at the stop event
BackoffDone ==
  /\ spc = "sleep"
  /\ spc' = "snap"
  /\ lastev' = "slept"
  /\ \E jitter \in Jitters(Backoff(attempt)) :
       slept' = <<[attempt |-> attempt, d |-> Backoff(attempt) + jitter,
                   before |-> IF attempt >= 2 THEN slept[1].d ELSE 0]>>
  /\ UNCHANGED <<attempt, stop_event, stop_pc, ws_ref, conn, close_code, cancelled>>
  /\ UNCHANGED msgVars
  /\ UNCHANGED lifeOthers

\* _download_all_snapshots: every symbol answered with status 200
SnapshotsOk ==
  /\ spc = "snap"
  /\ spc' = "connect"
  /\ lastev' = "snap_ok"
  /\ UNCHANGED <<attempt, stop_event, stop_pc, ws_ref, conn, close_code, cancelled>>
  /\ UNCHANGED msgVars
  /\ UNCHANGED <<slept, lifeOthers>>

\* _download_all_snapshots: HTTP error, timeout or a status other than 200
SnapshotsFail ==
  /\ spc = "snap"
  /\ attempt < MaxAttempt
  /\ StartExcept("snap_fault")
  /\ UNCHANGED <<stop_event, stop_pc, ws_ref, conn, close_code, cancelled>>
  /\ UNCHANGED msgVars
  /\ UNCHANGED <<slept, lifeOthers>>

\* _run_once: connect(...) succeeded; self._ws = ws
ConnectOk ==
  /\ spc = "connect"
  /\ spc' = "subscribe"
  /\ ws_ref' = "ws"
  /\ conn' = "open"
  /\ close_code' = 0
  /\ lastev' = "connected"
  /\ UNCHANGED <<attempt, stop_event, stop_pc, cancelled>>
  /\ UNCHANGED msgVars
  /\ UNCHANGED <<slept, lifeOthers>>

\* _run_once: connect(...) failed; self._ws keeps what it held
ConnectFail ==
  /\ spc = "connect"
  /\ attempt < MaxAttempt
  /\ StartExcept("connect_fault")
  /\ UNCHANGED <<stop_event, stop_pc, ws_ref, conn, close_code, cancelled>>
  /\ UNCHANGED msgVars
  /\ UNCHANGED <<slept, lifeOthers>>

\* _subscribe: ws.send went out
SubscribeOk ==
  /\ spc = "subscribe"
  /\ conn = "open"
  /\ spc' = "recv"
  /\ lastev' = "subscribed"
  /\ UNCHANGED <<attempt, stop_event, stop_pc, ws_ref, conn, close_code, cancelled>>
  /\ UNCHANGED msgVars
  /\ UNCHANGED <<slept, lifeOthers>>

\* _subscribe: ws.send raised (always so on a socket stop() is closing)
SubscribeFail ==
  /\ spc = "subscribe"
  /\ conn # "open" \/ attempt < MaxAttempt
  /\ ExitSocket
  /\ StartExcept("subscribe_fault")
  /\ UNCHANGED <<stop_event, stop_pc, ws_ref, cancelled>>
  /\ UNCHANGED msgVars
  /\ UNCHANGED <<slept, lifeOthers>>

\* _router ends normally: self._ws = None, the socket is left, attempt = 0
RouterExit(ev) ==
  /\ ws_ref' = None
  /\ ExitSocket
  /\ attempt' = 0
  /\ spc' = LoopPc(0)
  /\ lastev' = ev

\* _router: a message arrives; break if the stop event is set, else route it:
\* the handler of its kind is awaited, and that handler awaits message_handler
\* if the message yields an event (or a resync download if it shows a gap)
RecvMessage ==
  /\ spc = "recv"
  /\ conn = "open"
  /\ IF stop_event
       THEN /\ RouterExit("stop_seen")
            /\ UNCHANGED msgVars
       ELSE /\ wseq < MaxMsg
            /\ spc' = RouterDispatch
            /\ lastev' = "message"
            /\ wseq' = wseq + 1
            /\ \E yields \in BOOLEAN :
                 /\ hopen' = IF yields THEN wseq + 1 ELSE hopen
                 /\ hlog' = IF yields THEN Append(hlog, wseq + 1) ELSE hlog
            /\ UNCHANGED <<attempt, ws_ref, conn, close_code>>
  /\ UNCHANGED <<stop_event, stop_pc, cancelled, dropped>>
  /\ UNCHANGED <<slept, lifeOthers>>

\* _router without its try/except: the exception leaves _router and
\* "async with connect", and start() counts a fault
RouterUncaught ==
  /\ ExitSocket
  /\ attempt' = attempt + 1
  /\ spc' = LoopPc(attempt + 1)
  /\ UNCHANGED ws_ref

\* _router: except Exception: logger.debug(...), and the loop takes the next message
RouterCaught ==
  /\ spc' = "recv"
  /\ UNCHANGED <<attempt, ws_ref, conn, close_code>>

\* _router: a message arrives that json.loads cannot parse, or whose handler
\* raises before its first await (a missing field, a non-numeric value)
RecvFaulty ==
  /\ spc = "recv"
  /\ conn = "open"
  /\ ~stop_event
  /\ wseq < MaxMsg
  /\ RouterCaught
  /\ lastev' = "payload_fault"
  /\ wseq' = wseq + 1
  /\ dropped' = dropped \cup {wseq + 1}
  /\ UNCHANGED <<hopen, hlog>>
  /\ UNCHANGED <<stop_event, stop_pc, cancelled>>
  /\ UNCHANGED <<slept, lifeOthers>>

\* _router: the handler returned, or raised and the exception was logged
HandlerDone ==
  /\ spc = "handling"
  /\ spc' = "recv"
  /\ \E ev \in {"handled", "payload_fault"} : lastev' = ev
  /\ hopen' = 0
  /\ UNCHANGED <<wseq, hlog, dropped>>
  /\ UNCHANGED <<attempt, stop_event, stop_pc, ws_ref, conn, close_code, cancelled>>
  /\ UNCHANGED <<slept, lifeOthers>>

\* _router: the iteration ends because the socket was closed normally
RecvClosed ==
  /\ spc = "recv"
  /\ conn = "closed"
  /\ RouterExit("closed_seen")
  /\ UNCHANGED <<stop_event, stop_pc, cancelled>>
  /\ UNCHANGED msgVars
  /\ UNCHANGED <<slept, lifeOthers>>

\* the exchange closes the socket with a normal close frame: the iteration of
\* _router ends without an exception
ServerClose ==
  /\ spc = "recv"
  /\ conn = "open"
  /\ RouterExit("server_close")
  /\ UNCHANGED <<stop_event, stop_pc, cancelled>>
  /\ UNCHANGED msgVars
  /\ UNCHANGED <<slept, lifeOthers>>

\* the connection is lost without a close frame: the iteration of _router
\* raises ConnectionClosed, which leaves _router before self._ws = None
ConnectionDrop ==
  /\ spc = "recv"
  /\ conn = "open"
  /\ attempt < MaxAttempt
  /\ conn' = "closed"
  /\ close_code' = 0
  /\ StartExcept("drop")
  /\ UNCHANGED <<stop_event, stop_pc, ws_ref, cancelled>>
  /\ UNCHANGED msgVars
  /\ UNCHANGED <<slept, lifeOthers>>

\* stop(): set the event; close the socket if self._ws is set and not closed
Stop ==
  /\ stop_pc = "idle"
  /\ stop_event' = TRUE
  /\ IF ws_ref # None /\ conn # "closed"
       THEN stop_pc' = "closing" /\ conn' = "closing"
       ELSE stop_pc' = "done" /\ conn' = conn
  /\ UNCHANGED <<spc, attempt, ws_ref, close_code, cancelled, lastev>>
  /\ UNCHANGED msgVars
  /\ UNCHANGED <<slept, lifeOthers>>

\* stop(): await self._ws.close(code=1000) is over
StopCloseDone ==
  /\ stop_pc = "closing"
  /\ stop_pc' = "done"
  /\ conn' = "closed"
  /\ close_code' = IF conn = "closing" THEN NormalClosure ELSE close_code
  /\ UNCHANGED <<spc, attempt, stop_event, ws_ref, cancelled, lastev>>
  /\ UNCHANGED msgVars
  /\ UNCHANGED <<slept, lifeOthers>>

\* the task of start() is cancelled: CancelledError is thrown at the await
\* the task is suspended at.  Line 133 catches it inside _run_once(); the
\* backoff sleep is outside the try; a task that has not run never runs
Cancel ==
  /\ ~cancelled
  /\ spc \in Suspended \cup {"init"}
  /\ cancelled' = TRUE
  /\ spc' = IF spc \in {"init", "sleep"} THEN "cancelled" ELSE "returned"
  /\ IF spc \in InSocket
       THEN ExitSocket
       ELSE UNCHANGED <<conn, close_code>>
  /\ lastev' = "cancel"
  /\ hopen' = 0
  /\ UNCHANGED <<wseq, hlog, dropped>>
  /\ UNCHANGED <<attempt, stop_event, stop_pc, ws_ref>>
  /\ UNCHANGED <<slept, lifeOthers>>

LifeNext ==
  \/ TaskStart
  \/ BackoffDone
  \/ SnapshotsOk
  \/ SnapshotsFail
  \/ ConnectOk
  \/ ConnectFail
  \/ SubscribeOk
  \/ SubscribeFail
  \/ RecvMessage
  \/ RecvFaulty
  \/ HandlerDone
  \/ RecvClosed
  \/ ServerClose
  \/ ConnectionDrop
  \/ Stop
  \/ StopCloseDone
  \/ Cancel

LifeStart ==
  /\ ConnectorInit
  /\ HistInit
  /\ LifeInit
  /\ HandlerInit
  /\ PartsInit
  /\ rpc = "snap"
  /\ snapIdx = 1

SpecLife == LifeStart /\ [][LifeNext]_vars

(***************************************************************************)
(* LiveLife : SpecLife with the progress the event loop and the network    *)
(* stack give: a task that can run does run, a sleep ends, an HTTP request *)
(* and a connect answer or time out, a close handshake ends.  Nothing      *)
(* promises an inbound message, a drop, a stop or a cancellation.          *)
(***************************************************************************)
LifeFair ==
  /\ WF_vars(TaskStart)
  /\ WF_vars(BackoffDone)
  /\ WF_vars(SnapshotsOk \/ SnapshotsFail)
  /\ WF_vars(ConnectOk \/ ConnectFail)
  /\ WF_vars(SubscribeOk \/ SubscribeFail)
  /\ WF_vars(HandlerDone)
  /\ WF_vars(RecvClosed)
  /\ WF_vars(StopCloseDone)

LiveLife == LifeStart /\ [][LifeNext]_vars /\ LifeFair

(***************************************************************************)
(* SpecDisp : TickHandler.handle_tick, called by the connector of each     *)
(* exchange for one event at a time (a connector awaits the call before it *)
(* reads its next message).  calls[c] is the call of connector c:          *)
(*   pc        "idle" | "mon_send" (a monitor awaits alert_engine.send) |  *)
(*             "lock_wait" (async with sem) | "send" (_dispatch_with_retry *)
(*             awaits alert_engine.send) | "retry_sleep" (asyncio.sleep)   *)
(*   ev        the event handled                                           *)
(*   unit      whose alert is in flight: "flow", "spread", "queue",        *)
(*             "engine"                                                    *)
(*   left      alerts of alert_engine.check waiting behind the current one *)
(*   nsent     attempts made for the current alert (attempt + 1)           *)
(*   okseen    the mail collaborator returned True for the current alert   *)
(*   res       how the last call ended: "none" | "returned" | "raised"     *)
(*   fault     something raised in the call                                *)
(*   abandoned the retry loop of the call gave an alert up: "no" |         *)
(*             "failed" (no attempt succeeded) | "sent" (one did)          *)
(* What a monitor or the engine decides (alert or none) is left open here. *)
(***************************************************************************)
MAX_RETRIES == 2

Event(c, sym, kind) == [exchange |-> c, symbol |-> sym, event |-> kind]
Key(r) == <<r.ev.exchange, r.ev.symbol>>

\* EmailSender.send: True (sent), False (no recipient or SMTP failure)
MailResults == {"True", "False"}

\* AlertEngine.send: awaits the mail collaborator, logs a failure, returns
\* nothing
EngineSend(ok) == None

\* Python's truth value of True, False and None
Truthy(v) == v = "True"

\* the call is entered: what the last call left behind is forgotten
Enter(r, ev) == [r EXCEPT !.ev = ev, !.res = "none", !.fault = FALSE, !.abandoned = "no"]

\* handle_tick returns
Returned(r) ==
  [r EXCEPT !.pc = "idle", !.ev = NoEvent, !.unit = None, !.left = 0,
            !.nsent = 0, !.okseen = FALSE, !.res = "returned"]

\* handle_tick without its except clause: the exception reaches the connector
CaughtNot(r) == [Returned(r) EXCEPT !.res = "raised", !.fault = TRUE]

\* handle_tick: except Exception: logger.exception(...), then the normal return
Caught(r) == [Returned(r) EXCEPT !.fault = TRUE]

\* the call of c goes on as r; leaving handle_tick leaves "async with sem"
Proceed(c, r) ==
  /\ calls' = [calls EXCEPT ![c] = r]
  /\ lock' = [k \in Keys |-> IF lock[k] = c /\ r.pc = "idle" THEN None ELSE lock[k]]

\* a monitor's add: it raises, sees nothing to report, or awaits
\* alert_engine.send with its alert
MonitorOutcomes == {"raise", "quiet", "alert"}

\* QueueImbalanceMonitor.add, the last statement of the depth branch
QueueAdd(r, q) ==
  CASE q = "raise" -> Caught(r)
    [] q = "alert" -> [r EXCEPT !.pc = "mon_send", !.unit = "queue"]
    [] OTHER -> Returned(r)

\* file_sink.add raises: nothing else is done for the event
TickSinkFault(c) ==
  /\ calls[c].pc = "idle"
  /\ \E sym \in Symbols, kind \in {"ticker", "trade", "depth"} :
       Proceed(c, Caught(Enter(calls[c], Event(c, sym, kind))))
  /\ UNCHANGED dispOthers

\* a trade event: file_sink.add, then FlowImbalanceMonitor.add
TickTrade(c) ==
  /\ calls[c].pc = "idle"
  /\ \E sym \in Symbols, q \in MonitorOutcomes :
       LET r == Enter(calls[c], Event(c, sym, "trade"))
       IN Proceed(c, CASE q = "raise" -> Caught(r)
                       [] q = "alert" -> [r EXCEPT !.pc = "mon_send", !.unit = "flow"]
                       [] OTHER -> Returned(r))
  /\ UNCHANGED dispOthers

\* a depth event: file_sink.add, SpreadStressMonitor.add, then
\* QueueImbalanceMonitor.add if the spread monitor had nothing to send
TickDepth(c) ==
  /\ calls[c].pc = "idle"
  /\ \E sym \in Symbols, q \in MonitorOutcomes, q2 \in MonitorOutcomes :
       LET r == Enter(calls[c], Event(c, sym, "depth"))
       IN Proceed(c, CASE q = "raise" -> Caught(r)
                       [] q = "alert" -> [r EXCEPT !.pc = "mon_send", !.unit = "spread"]
                       [] OTHER -> QueueAdd(r, q2))
  /\ UNCHANGED dispOthers

\* a ticker as handle_tick reads it: "ok"; "bad_price" (float(price) raises
\* TypeError or ValueError); "bad_field" (a key is missing or the timestamp is
\* no number: KeyError, TypeError or ValueError outside the inner try)
TickerPayloads == {"ok", "bad_price", "bad_field"}

\* AlertEngine.check: how many alerts it returns (24 h window, short window)
CheckAlerts == {0, 1, 2}

\* _dispatch_with_retry is entered for the next alert of the list
NextAlert(r) ==
  IF r.left > 0
    THEN [r EXCEPT !.pc = "send", !.left = r.left - 1, !.nsent = 1, !.okseen = FALSE]
    ELSE Returned(r)

\* a ticker event: file_sink.add, the fields, store.update, alert_engine.check,
\* and with alerts the Lock of the key and the first attempt of the first alert
TickTicker(c) ==
  /\ calls[c].pc = "idle"
  /\ \E sym \in Symbols, payload \in TickerPayloads, store_ok \in BOOLEAN, n \in CheckAlerts :
       LET r == Enter(calls[c], Event(c, sym, "ticker"))
           k == <<c, sym>>
       IN CASE payload = "bad_field" -> Proceed(c, Caught(r))
            [] payload = "bad_price" -> Proceed(c, Returned(r))
            [] payload = "ok" /\ ~store_ok -> Proceed(c, Caught(r))
            [] payload = "ok" /\ store_ok /\ n = 0 -> Proceed(c, Returned(r))
            [] OTHER ->
                 IF lock[k] = None
                   THEN /\ lock' = [lock EXCEPT ![k] = c]
                        /\ calls' = [calls EXCEPT ![c] =
                                       NextAlert([r EXCEPT !.unit = "engine", !.left = n])]
                   ELSE /\ lock' = lock
                        /\ calls' = [calls EXCEPT ![c] =
                                       [r EXCEPT !.pc = "lock_wait", !.unit = "engine", !.left = n]]
  /\ UNCHANGED dispOthers

\* a monitor's await of alert_engine.send ends: the mail collaborator raised,
\* or answered (the monitor does not look at the answer); after the spread
\* monitor the queue monitor runs
MonSendDone(c) ==
  /\ calls[c].pc = "mon_send"
  /\ \E m \in MailResults \cup {"raise"}, q2 \in MonitorOutcomes :
       LET r == [calls[c] EXCEPT !.pc = "idle"]
       IN Proceed(c, CASE m = "raise" -> Caught(r)
                       [] m # "raise" /\ r.unit = "spread" -> QueueAdd(r, q2)
                       [] OTHER -> Returned(r))
  /\ UNCHANGED dispOthers

\* _dispatch_with_retry: the range of the for loop is not used up
MoreAttemptsOff(n) == n <= 1 + MAX_RETRIES

MoreAttempts(n) == n < 1 + MAX_RETRIES

\* _dispatch_with_retry: await self.alert_engine.send(alert) ends; a true
\* result ends the loop, any other is followed by the warning and the sleep
SendDone(c) ==
  /\ calls[c].pc = "send"
  /\ \E m \in MailResults \cup {"raise"} :
       LET r == calls[c]
       IN Proceed(c, CASE m = "raise" -> Caught(r)
                       [] m # "raise" /\ Truthy(EngineSend(m)) -> NextAlert(r)
                       [] OTHER -> [r EXCEPT !.pc = "retry_sleep",
                                             !.okseen = r.okseen \/ m = "True"])
  /\ UNCHANGED dispOthers

\* _dispatch_with_retry: the sleep ends; the next attempt, or "Giving up"
RetrySleepDone(c) ==
  /\ calls[c].pc = "retry_sleep"
  /\ LET r == calls[c]
     IN Proceed(c, IF MoreAttempts(r.nsent)
                     THEN [r EXCEPT !.pc = "send", !.nsent = r.nsent + 1]
                     ELSE NextAlert([r EXCEPT !.abandoned =
                                       IF r.okseen THEN "sent" ELSE "failed"]))
  /\ UNCHANGED dispOthers

DispNext ==
  \E c \in Exchanges :
    \/ TickSinkFault(c)
    \/ TickTrade(c)
    \/ TickDepth(c)
    \/ TickTicker(c)
    \/ MonSendDone(c)
    \/ SendDone(c)
    \/ RetrySleepDone(c)

DispInit ==
  /\ ConnectorInit
  /\ HistInit
  /\ LifeInit
  /\ HandlerInit
  /\ PartsInit
  /\ rpc = "snap"
  /\ snapIdx = 1

SpecDisp == DispInit /\ [][DispNext]_vars

(***************************************************************************)
(* SpecLock : the ticker branch of handle_tick called by several tasks at  *)
(* once, from "if alerts" on.  tcall[t] is the call of task t:             *)
(*   pc      "idle" | "lock_wait" (async with sem) | "send" | "retry_sleep"*)
(*           | "cancelled" (the task was cancelled; it makes no more calls)*)
(*   key     the (exchange, symbol) of its ticker                          *)
(*   left    alerts waiting behind the current one                         *)
(*   nsent   attempts made for the current alert                           *)
(*   waited  the call was suspended in the Lock's acquire                  *)
(*   res     how the last call ended: "none" | "sent" | "gave_up" |        *)
(*           "raised" | "cancelled"                                        *)
(* asyncio.Lock wakes its waiters in the order they came, and an acquire   *)
(* that finds the Lock free but a waiter woken before it queues behind it. *)
(***************************************************************************)
\* "async with sem" is left by a return, an exception or a cancellation
\* without the Lock being released on a cancellation
AfterWithKeptOnCancel(h, k, how) ==
  IF how = "cancelled" THEN h ELSE [h EXCEPT ![k] = None]

\* "async with sem" is left by a return, an exception or a cancellation:
\* __aexit__ releases the Lock
AfterWith(h, k, how) == [h EXCEPT ![k] = None]

\* the call of t leaves handle_tick from inside "async with sem"
LeaveWith(t, how) ==
  /\ holder' = AfterWith(holder, tcall[t].key, how)
  /\ tcall' = [tcall EXCEPT ![t] =
                 [IdleTask EXCEPT !.res = how,
                                  !.pc = IF how = "cancelled" THEN "cancelled" ELSE "idle"]]
  /\ UNCHANGED waitq

\* "for alert in alerts": _dispatch_with_retry for the next alert, or the end
\* of the list and of the call
NextOrLeave(t, how) ==
  IF tcall[t].left > 0
    THEN /\ tcall' = [tcall EXCEPT ![t].pc = "send", ![t].left = @ - 1, ![t].nsent = 1]
         /\ UNCHANGED <<holder, waitq>>
    ELSE LeaveWith(t, how)

\* handle_tick for a ticker with n alerts: the Lock of the key is taken, or
\* the call is suspended in its acquire
LockTicker(t) ==
  /\ tcall[t].pc = "idle"
  /\ \E k \in LockKeys, n \in CheckAlerts \ {0} :
       IF holder[k] = None /\ waitq[k] = <<>>
         THEN /\ holder' = [holder EXCEPT ![k] = t]
              /\ tcall' = [tcall EXCEPT ![t] =
                             [IdleTask EXCEPT !.pc = "send", !.key = k,
                                              !.left = n - 1, !.nsent = 1]]
              /\ UNCHANGED waitq
         ELSE /\ waitq' = [waitq EXCEPT ![k] = Append(@, t)]
              /\ tcall' = [tcall EXCEPT ![t] =
                             [IdleTask EXCEPT !.pc = "lock_wait", !.key = k,
                                              !.left = n, !.waited = TRUE]]
              /\ UNCHANGED holder
  /\ UNCHANGED lockOthers

\* the Lock was released and the first waiter resumes inside "async with sem"
LockAcquired(t) ==
  /\ tcall[t].pc = "lock_wait"
  /\ LET k == tcall[t].key
     IN /\ holder[k] = None
        /\ waitq[k] # <<>> /\ Head(waitq[k]) = t
        /\ holder' = [holder EXCEPT ![k] = t]
        /\ waitq' = [waitq EXCEPT ![k] = Tail(@)]
        /\ tcall' = [tcall EXCEPT ![t].pc = "send", ![t].left = @ - 1, ![t].nsent = 1]
  /\ UNCHANGED lockOthers

\* _dispatch_with_retry: await self.alert_engine.send(alert) ends
LockSendDone(t) ==
  /\ tcall[t].pc = "send"
  /\ \E m \in MailResults \cup {"raise"} :
       CASE m = "raise" -> LeaveWith(t, "raised")
         [] m # "raise" /\ Truthy(EngineSend(m)) -> NextOrLeave(t, "sent")
         [] OTHER -> /\ tcall' = [tcall EXCEPT ![t].pc = "retry_sleep"]
                     /\ UNCHANGED <<holder, waitq>>
  /\ UNCHANGED lockOthers

\* _dispatch_with_retry: the sleep ends; the next attempt, or "Giving up"
LockSleepDone(t) ==
  /\ tcall[t].pc = "retry_sleep"
  /\ IF MoreAttempts(tcall[t].nsent)
       THEN /\ tcall' = [tcall EXCEPT ![t].pc = "send", ![t].nsent = @ + 1]
            /\ UNCHANGED <<holder, waitq>>
       ELSE NextOrLeave(t, "gave_up")
  /\ UNCHANGED lockOthers

\* the task is cancelled at the await it is suspended at: in the acquire it
\* leaves the queue of waiters, inside "async with sem" it leaves the block
LockCancel(t) ==
  /\ tcall[t].pc \in {"lock_wait", "send", "retry_sleep"}
  /\ IF tcall[t].pc = "lock_wait"
       THEN /\ waitq' = [waitq EXCEPT ![tcall[t].key] = SelectSeq(@, LAMBDA x : x # t)]
            /\ tcall' = [tcall EXCEPT ![t] =
                           [IdleTask EXCEPT !.res = "cancelled", !.pc = "cancelled"]]
            /\ UNCHANGED holder
       ELSE LeaveWith(t, "cancelled")
  /\ UNCHANGED lockOthers

LockNext ==
  \E t \in Tasks :
    \/ LockTicker(t)
    \/ LockAcquired(t)
    \/ LockSendDone(t)
    \/ LockSleepDone(t)
    \/ LockCancel(t)

SpecLock == DispInit /\ [][LockNext]_vars

\* what the event loop gives: a woken waiter resumes, a send answers or
\* raises, a sleep ends.  Nothing promises a new call or a cancellation.
LockFair ==
  \A t \in Tasks :
    /\ WF_vars(LockAcquired(t))
    /\ WF_vars(LockSendDone(t))
    /\ WF_vars(LockSleepDone(t))

LiveLock == DispInit /\ [][LockNext]_vars /\ LockFair

(***************************************************************************)
(* SpecWin : RollingWindowMixin._push, called with any symbol and any      *)
(* timestamp (the monitors are keyed by symbol only, so the events of      *)
(* several exchanges, each with its own clock, meet in one buffer)         *)
(***************************************************************************)
\* _push: while dq and dq[0][0] < cut: dq.popleft()
RECURSIVE EvictFront(_, _)
EvictFront(dq, cut) ==
  IF dq # <<>> /\ dq[1][1] < cut
    THEN EvictFront(Tail(dq), cut)
    ELSE dq

\* _push(sym, ts, val): the buffer of sym after the call
Push(hist, sym, ts, val) ==
  [hist EXCEPT ![sym] = EvictFront(Append(hist[sym], <<ts, val>>), ts - WindowMs)]

WinPush ==
  /\ npush < MaxPush
  /\ \E sym \in Symbols, ts \in 0..MaxTs :
       /\ whist' = Push(whist, sym, ts, 1)
       /\ wlast' = <<[sym |-> sym, ts |-> ts]>>
  /\ npush' = npush + 1
  /\ UNCHANGED winOthers

WinInit ==
  /\ ConnectorInit
  /\ HistInit
  /\ LifeInit
  /\ HandlerInit
  /\ PartsInit
  /\ rpc = "snap"
  /\ snapIdx = 1

WinNext == WinPush

SpecWin == WinInit /\ [][WinNext]_vars

(***************************************************************************)
(* SpecCool : the cooldown gate of the alerting units.  A qualifying       *)
(* condition is a call in which a unit's threshold test passes; the gate   *)
(* then compares now with last_alert of the key.  now is the event's       *)
(* timestamp in AlertEngine.check and time.time() in the monitors; either  *)
(* may be any value of CoolTimes, in any order.  The alert is sent within  *)
(* the call of the connector that delivered the event.                     *)
(***************************************************************************)
\* the gate with a cooldown one millisecond short
ShouldAlertShort(last, now) == now - last >= CooldownMs - 1

\* AlertEngine._should_alert: now - last >= cooldown; the monitors return on
\* now - last < cooldown_ms
ShouldAlert(last, now) == now - last >= CooldownMs

\* the keys a connector's events can meet: the engine's tags of its own
\* exchange, and every monitor key
KeysOf(c) == {k \in EngineKeys : k[1] = c} \cup MonitorKeys

\* a qualifying condition for k at now, in a call of connector c: the gate, and
\* with an alert last_alert[k] = now before the send is awaited
Qualify(c) ==
  /\ sending[c] = <<>>
  /\ nqual < MaxQual
  /\ \E k \in KeysOf(c), now \in CoolTimes :
       LET e == ShouldAlert(last_alert[k], now)
       IN /\ last_alert' = IF e THEN [last_alert EXCEPT ![k] = now] ELSE last_alert
          /\ sending' = IF e THEN [sending EXCEPT ![c] = <<k>>] ELSE sending
          /\ emits' = IF e THEN [emits EXCEPT ![k] = @ \cup {now}] ELSE emits
          /\ qseen' = [qseen EXCEPT ![k] = TRUE]
          /\ lastq' = <<[key |-> k, t |-> now, emitted |-> e, first |-> ~qseen[k],
                         early |-> {t1 \in emits[k] : now - t1 < CooldownMs /\ t1 - now < CooldownMs}]>>
  /\ nqual' = nqual + 1
  /\ UNCHANGED failed
  /\ UNCHANGED coolOthers

\* the send of the alert ends: delivered, failed, or raised; last_alert keeps
\* what the gate wrote
CoolSendEnd(c) ==
  /\ sending[c] # <<>>
  /\ \E m \in MailResults \cup {"raise"} :
       failed' = [failed EXCEPT ![sending[c][1]] = @ \/ m # "True"]
  /\ sending' = [sending EXCEPT ![c] = <<>>]
  /\ UNCHANGED <<last_alert, emits, qseen, lastq, nqual>>
  /\ UNCHANGED coolOthers

CoolNext ==
  \E c \in Exchanges :
    \/ Qualify(c)
    \/ CoolSendEnd(c)

CoolStart ==
  /\ ConnectorInit
  /\ HistInit
  /\ LifeInit
  /\ HandlerInit
  /\ PartsInit
  /\ rpc = "snap"
  /\ snapIdx = 1

SpecCool == CoolStart /\ [][CoolNext]_vars

(***************************************************************************)
(* SpecRoute : handle_tick with the state of the units it feeds: sink,     *)
(* store, price-move engine, flow, spread and queue monitor.  Whether a    *)
(* threshold test passes is left open (q); the delivery loop is one step   *)
(* here (SpecDisp has its attempts).                                       *)
(***************************************************************************)
\* AlertEngine.__init__ : window_24h_ms and window_short_ms
W24Ms == 2
WShortMs == 1

\* handle_tick: event = data.get("event", "ticker")
BranchTicker(ev) == "ticker"

Branch(ev) == ev.event

\* handle_tick: float(data["price"]) gives a number
PriceOkLax(ev) == ev.pk # "missing"

PriceOk(ev) == ev.pk = "num"

\* handle_tick: for alert in alerts: how many of n alerts reach
\* _dispatch_with_retry
HandedFirst(n) == IF n > 0 THEN 1 ELSE 0

Handed(n) == n

\* MemoryStore.update keeping the entry with the newer timestamp
StoreUpdateNewest(st, exchange, symbol, price, timestamp, now) ==
  IF st[<<exchange, symbol>>] # <<>> /\ st[<<exchange, symbol>>][1].timestamp > timestamp
    THEN st
    ELSE [st EXCEPT ![<<exchange, symbol>>] =
            <<[price |-> price, timestamp |-> IF timestamp = 0 THEN now ELSE timestamp]>>]

\* MemoryStore.update: ts = timestamp or now; the entry of the key is replaced
StoreUpdate(st, exchange, symbol, price, timestamp, now) ==
  [st EXCEPT ![<<exchange, symbol>>] =
     <<[price |-> price, timestamp |-> IF timestamp = 0 THEN now ELSE timestamp]>>]

\* AlertEngine.check: dq.append((now, price)), then the pruning of everything
\* older than the bigger window
EngineFeed(h, key, now, price) ==
  [h EXCEPT ![key] = EvictFront(Append(@, <<now, price>>),
                                now - (IF W24Ms > WShortMs THEN W24Ms ELSE WShortMs))]

\* AlertEngine.check: the window tag alerts (q: its reference exists and the
\* move meets its threshold)
TagAlerts(ev, tag, q, now) == q /\ ShouldAlert(elast[<<ev.exchange, ev.symbol, tag>>], now)

\* a monitor's add: the sample is pushed to the symbol's window
MonPush(mh, u, ev) ==
  [mh EXCEPT ![u][ev.symbol] = EvictFront(Append(@, <<ev.timestamp, 1>>), ev.timestamp - WindowMs)]

\* a monitor's add: it alerts (q: its threshold test passes; wall: time.time())
MonAlerts(u, ev, q, wall) == q /\ ShouldAlert(mlast[u][ev.symbol], wall)

MonMark(ml, u, ev, q, wall) ==
  IF MonAlerts(u, ev, q, wall) THEN [ml EXCEPT ![u][ev.symbol] = wall] ELSE ml

ReturnedR(r) == [r EXCEPT !.pc = "idle", !.res = "returned"]
CaughtR(r) == [ReturnedR(r) EXCEPT !.fault = TRUE]
Fed(r, u) == [r EXCEPT !.feeds = Append(@, u)]

\* handle_tick is entered: file_sink.add(data) is awaited first
Entered(ev, sink_ok) == [IdleRoute EXCEPT !.ev = ev, !.feeds = <<"sink">>, !.sink_ok = sink_ok]

\* the call's frame after a step: kept while the call waits, gone once
\* handle_tick is over (done then holds the finished call for the properties)
Settle(c, r) ==
  /\ rc' = [rc EXCEPT ![c] = IF r.pc = "idle" THEN IdleRoute ELSE r]
  /\ done' = IF r.pc = "idle" THEN <<r>> ELSE <<>>

\* QueueImbalanceMonitor.add, the last statement of the depth branch: it
\* raises on a malformed event (r2 = "raise"), or pushes and may alert
QueueStage(c, r, r2, wall, mh) ==
  IF r2 = "raise"
    THEN /\ Settle(c, CaughtR(Fed(r, "queue")))
         /\ mhist' = mh
         /\ mlast' = mlast
    ELSE /\ mhist' = MonPush(mh, "queue", r.ev)
         /\ mlast' = MonMark(mlast, "queue", r.ev, r2 = "alert", wall)
         /\ Settle(c, IF MonAlerts("queue", r.ev, r2 = "alert", wall)
                       THEN [Fed(r, "queue") EXCEPT !.pc = "last_send"]
                       ELSE ReturnedR(Fed(r, "queue")))

\* a trade: sink, then FlowImbalanceMonitor.add, which computes the notional
\* from qty and price before it pushes
RouteTrade(c) ==
  /\ rc[c].pc = "idle"
  /\ ncalls < MaxCalls
  /\ \E ev \in RouteEvents(c), sink_ok \in BOOLEAN, q \in BOOLEAN, wall \in RouteTimes :
       /\ Branch(ev) = "trade"
       /\ (~sink_ok \/ ev.pk # "num") => ~q      \* q is not read
       /\ LET r == Entered(ev, sink_ok)
          IN IF ~sink_ok
               THEN /\ Settle(c, CaughtR(r))
                    /\ UNCHANGED <<mhist, mlast>>
               ELSE IF ev.pk # "num"
               THEN /\ Settle(c, CaughtR(Fed(r, "flow")))
                    /\ UNCHANGED <<mhist, mlast>>
               ELSE /\ mhist' = MonPush(mhist, "flow", ev)
                    /\ mlast' = MonMark(mlast, "flow", ev, q, wall)
                    /\ Settle(c, IF MonAlerts("flow", ev, q, wall)
                                  THEN [Fed(r, "flow") EXCEPT !.pc = "last_send"]
                                  ELSE ReturnedR(Fed(r, "flow")))
  /\ sink_n' = sink_n + 1
  /\ ncalls' = ncalls + 1
  /\ actor' = c
  /\ UNCHANGED <<store, history, elast>>
  /\ UNCHANGED routeOthers

\* a depth event: sink, SpreadStressMonitor.add, then QueueImbalanceMonitor.add
\* (after the spread monitor's send, if it alerts); neither reads the price
RouteDepth(c) ==
  /\ rc[c].pc = "idle"
  /\ ncalls < MaxCalls
  /\ \E ev \in RouteEvents(c), sink_ok \in BOOLEAN, r1 \in MonitorOutcomes,
        r2 \in MonitorOutcomes, wall \in RouteTimes :
       /\ Branch(ev) = "depth"
       /\ ~sink_ok => r1 = "quiet"               \* r1 is not read
       /\ (~sink_ok \/ r1 = "raise" \/ MonAlerts("spread", ev, r1 = "alert", wall))
            => r2 = "quiet"                      \* r2 is not read
       /\ LET r == Entered(ev, sink_ok)
          IN IF ~sink_ok
               THEN /\ Settle(c, CaughtR(r))
                    /\ UNCHANGED <<mhist, mlast>>
               ELSE IF r1 = "raise"
               THEN /\ Settle(c, CaughtR(Fed(r, "spread")))
                    /\ UNCHANGED <<mhist, mlast>>
               ELSE IF MonAlerts("spread", ev, r1 = "alert", wall)
               THEN /\ mhist' = MonPush(mhist, "spread", ev)
                    /\ mlast' = MonMark(mlast, "spread", ev, TRUE, wall)
                    /\ Settle(c, [Fed(r, "spread") EXCEPT !.pc = "spread_send"])
               ELSE QueueStage(c, Fed(r, "spread"), r2, wall, MonPush(mhist, "spread", ev))
  /\ sink_n' = sink_n + 1
  /\ ncalls' = ncalls + 1
  /\ actor' = c
  /\ UNCHANGED <<store, history, elast>>
  /\ UNCHANGED routeOthers

\* a ticker (or an event of no kind): sink, float(data["price"]), store.update,
\* alert_engine.check, and the delivery loop for what it returned
RouteTicker(c) ==
  /\ rc[c].pc = "idle"
  /\ ncalls < MaxCalls
  /\ \E ev \in RouteEvents(c), sink_ok \in BOOLEAN, q24 \in BOOLEAN, qs \in BOOLEAN :
       /\ Branch(ev) = "ticker"
       /\ (~sink_ok \/ ~PriceOk(ev)) => (~q24 /\ ~qs)   \* they are not read
       /\ LET r == Entered(ev, sink_ok)
              key == <<ev.exchange, ev.symbol>>
              now == ev.timestamp
              a24 == TagAlerts(ev, "24h", q24, now)
              as == TagAlerts(ev, "short", qs, now)
              n == (IF a24 THEN 1 ELSE 0) + (IF as THEN 1 ELSE 0)
              fed == [Fed(Fed(r, "store"), "engine") EXCEPT !.found = n, !.handed = Handed(n)]
          IN IF ~sink_ok \/ ev.pk = "missing"
               THEN /\ Settle(c, CaughtR(r))
                    /\ UNCHANGED <<store, history, elast>>
               ELSE IF ~PriceOk(ev)
               THEN /\ Settle(c, ReturnedR(r))
                    /\ UNCHANGED <<store, history, elast>>
               ELSE /\ store' = StoreUpdate(store, ev.exchange, ev.symbol, ev.price, ev.timestamp, now)
                    /\ history' = EngineFeed(history, key, now, ev.price)
                    /\ elast' = [k \in EngineKeys |->
                                   IF \/ k = <<ev.exchange, ev.symbol, "24h">> /\ a24
                                      \/ k = <<ev.exchange, ev.symbol, "short">> /\ as
                                     THEN now ELSE elast[k]]
                    /\ Settle(c, IF fed.handed > 0 THEN [fed EXCEPT !.pc = "deliver"]
                                                  ELSE ReturnedR(fed))
  /\ sink_n' = sink_n + 1
  /\ ncalls' = ncalls + 1
  /\ actor' = c
  /\ UNCHANGED <<mhist, mlast>>
  /\ UNCHANGED routeOthers

\* an awaited send ends: it returns (ok) or raises.  After the spread monitor's
\* send the queue monitor is fed; after the others handle_tick is over
RouteSendEnd(c) ==
  /\ rc[c].pc \in {"spread_send", "last_send", "deliver"}
  /\ \E ok \in BOOLEAN, r2 \in MonitorOutcomes, wall \in RouteTimes :
       /\ (~ok \/ rc[c].pc # "spread_send") => r2 = "quiet"   \* r2 is not read
       /\ IF ~ok
            THEN /\ Settle(c, CaughtR(rc[c]))
                 /\ UNCHANGED <<mhist, mlast>>
            ELSE IF rc[c].pc = "spread_send"
            THEN QueueStage(c, rc[c], r2, wall, mhist)
            ELSE /\ Settle(c, ReturnedR(rc[c]))
                 /\ UNCHANGED <<mhist, mlast>>
  /\ actor' = c
  /\ UNCHANGED <<sink_n, store, history, elast, ncalls>>
  /\ UNCHANGED routeOthers

RouteNext ==
  \/ \E c \in Exchanges : RouteTrade(c)
  \/ \E c \in Exchanges : RouteDepth(c)
  \/ \E c \in Exchanges : RouteTicker(c)
  \/ \E c \in Exchanges : RouteSendEnd(c)

RouteStart ==
  /\ ConnectorInit /\ HistInit /\ LifeInit /\ HandlerInit /\ PartsInit
  /\ rpc = "snap" /\ snapIdx = 1

SpecRoute == RouteStart /\ [][RouteNext]_vars

(***************************************************************************)
(* SpecStore : a MemoryStore and a RedisStore receive the same update      *)
(* calls.  Whether the process is over its memory limit at an update is    *)
(* left open; the writes to Redis succeed.                                 *)
(***************************************************************************)
\* timestamps passed to update (0: None or 0, both false for "timestamp or")
StoreStamps == 0..2

\* readings of time.time() in ms
StoreClocks == {2, 3}

\* MemoryStore.get_latest: the entry, or None (<<>>)
MemGetLatest(st, exchange, symbol) == st[<<exchange, symbol>>]

\* json.dumps of an entry: the text, as its tokens in order
JsonDumps(d) == <<"{", "price", d.price, "timestamp", d.timestamp, "}">>

\* json.loads of such a text
JsonLoads(raw) == [price |-> raw[3], timestamp |-> raw[5]]

\* RedisStore._maybe_evict: over the limit (pressure), the entries older than
\* the hot window at the reading now are written to Redis and leave _local
Victims(local, now) ==
  {k \in RouteKeys : local[k] # <<>> /\ local[k][1].timestamp < now - HotMs}

EvictLocal(local, pressure, now) ==
  [k \in RouteKeys |-> IF pressure /\ k \in Victims(local, now) THEN <<>> ELSE local[k]]

EvictRedis(local, db, pressure, now) ==
  [rk \in RedisKeys |->
     IF pressure /\ \E k \in Victims(local, now) : rk = RedisKey(k[1], k[2])
       THEN LET k == CHOOSE k \in Victims(local, now) : rk = RedisKey(k[1], k[2])
            IN <<JsonDumps(local[k][1])>>
       ELSE db[rk]]

\* RedisStore.get_latest reading Redis before _local
RedisGetColdFirst(local, db, exchange, symbol) ==
  IF db[RedisKey(exchange, symbol)] # <<>>
    THEN <<JsonLoads(db[RedisKey(exchange, symbol)][1])>>
    ELSE local[<<exchange, symbol>>]

\* RedisStore.get_latest: _local first, then Redis, then None (<<>>)
RedisGetLatest(local, db, exchange, symbol) ==
  IF local[<<exchange, symbol>>] # <<>>
    THEN local[<<exchange, symbol>>]
    ELSE IF db[RedisKey(exchange, symbol)] = <<>>
    THEN <<>>
    ELSE <<JsonLoads(db[RedisKey(exchange, symbol)][1])>>

\* psutil.Process().memory_info().rss as _maybe_evict samples it
RssValues == {MaxBytes - 1, MaxBytes, MaxBytes + 1}

\* _maybe_evict: if proc.memory_info().rss < self._max_bytes: return
OverLimit(rss) == ~(rss < MaxBytes)

\* update(exchange, symbol, price, timestamp) on both stores, at the clock
\* reading now; RedisStore then runs _maybe_evict, which samples rss and, over
\* the limit, reads the clock again (later)
UpdateCall ==
  /\ nup < MaxUpd
  /\ \E k \in RouteKeys, price \in RoutePrices, timestamp \in StoreStamps,
        now \in StoreClocks, later \in StoreClocks, rss \in RssValues :
       /\ later >= now
       /\ ~OverLimit(rss) => later = now           \* later is not read
       /\ sev' = <<[rss |-> rss, later |-> later, ok |-> TRUE]>>
       /\ mem' = StoreUpdate(mem, k[1], k[2], price, timestamp, now)
       /\ LET local == StoreUpdate(hot, k[1], k[2], price, timestamp, now)
          IN /\ hot' = EvictLocal(local, OverLimit(rss), later)
             /\ cold' = EvictRedis(local, cold, OverLimit(rss), later)
       /\ lastcall' = [lastcall EXCEPT ![k] =
                         <<[price |-> price, timestamp |-> timestamp, now |-> now]>>]
       /\ supd' = <<k>>
  /\ nup' = nup + 1
  /\ UNCHANGED storeOthers

StoreNext == UpdateCall

StoreStart ==
  /\ ConnectorInit /\ HistInit /\ LifeInit /\ HandlerInit /\ PartsInit
  /\ rpc = "snap" /\ snapIdx = 1

SpecStore == StoreStart /\ [][StoreNext]_vars

(***************************************************************************)
(* SpecEvict: the same update calls, with batch writes to Redis that fail  *)
(***************************************************************************)
\* update(...) whose _maybe_evict finds victims and whose pipe.execute()
\* raises: the victims were popped from _local while the batch was queued;
\* the batch did not reach Redis, or it did and only the reply was lost
UpdateCallBatchFails ==
  /\ nup < MaxUpd
  /\ \E k \in RouteKeys, price \in RoutePrices, timestamp \in StoreStamps,
        now \in StoreClocks, later \in StoreClocks, rss \in RssValues,
        written \in BOOLEAN :
       /\ later >= now
       /\ OverLimit(rss)
       /\ sev' = <<[rss |-> rss, later |-> later, ok |-> FALSE]>>
       /\ mem' = StoreUpdate(mem, k[1], k[2], price, timestamp, now)
       /\ LET local == StoreUpdate(hot, k[1], k[2], price, timestamp, now)
          IN /\ Victims(local, later) # {}
             /\ hot' = EvictLocal(local, TRUE, later)
             /\ cold' = IF written THEN EvictRedis(local, cold, TRUE, later) ELSE cold
       /\ lastcall' = [lastcall EXCEPT ![k] =
                         <<[price |-> price, timestamp |-> timestamp, now |-> now]>>]
       /\ supd' = <<k>>
  /\ nup' = nup + 1
  /\ UNCHANGED storeOthers

EvictNext ==
  \/ UpdateCall
  \/ UpdateCallBatchFails

SpecEvict == StoreStart /\ [][EvictNext]_vars

(***************************************************************************)
(* SpecQueue, SpecFlow, SpecSpread : add of each monitor with the samples  *)
(* it computes.  Quantities and prices are whole numbers; a quotient is    *)
(* kept as the pair [n, d] of its numerator and denominator and compared   *)
(* by cross-multiplication.  An add is followed up to the await of the     *)
(* send of its alert; the send itself changes nothing in the monitor.      *)
(***************************************************************************)
Abs(x) == IF x < 0 THEN -x ELSE x

\* event timestamps: with WindowMs = 2 the last one evicts the first
MonStamps == {1, 2, 4}

\* the monitors' test "now - self.last_alert.get(sym, 0) < self.cooldown_ms"
Cooling(last, now) == now - last < CooldownMs

\* QueueImbalanceMonitor: threshold = QThNum / QThDen = 0.7
QThNum == 7
QThDen == 10

\* (best_bid qty, best_ask qty) of a depth event, 0 for an absent side:
\* q = 0.8, 0.75, 0.3, -0.8, and no quantity at all
QtyPairs == {<<9, 1>>, <<7, 1>>, <<13, 7>>, <<1, 9>>, <<0, 0>>}

\* abs(v) >= self.th
QMeets(v) == Abs(v.n) * QThDen >= QThNum * v.d

\* QueueImbalanceMonitor.add with "any" for "all"
AnyMeets(dq) == \E i \in 1..Len(dq) : QMeets(dq[i][2])

\* QueueImbalanceMonitor.add: dq and all(abs(v) >= self.th for _, v in dq)
AllMeet(dq) == dq # <<>> /\ \A i \in 1..Len(dq) : QMeets(dq[i][2])

\* QueueImbalanceMonitor.add(depth)
QueueMonAdd ==
  /\ nadd < MaxAdd
  /\ \E sym \in CoolSymbols, ts \in MonStamps, pair \in QtyPairs, now \in CoolTimes :
       LET bidq == pair[1]
           askq == pair[2]
           dq == EvictFront(Append(qhist[sym], <<ts, [n |-> bidq - askq, d |-> bidq + askq]>>),
                            ts - WindowMs)
           alert == AllMeet(dq) /\ ~Cooling(qlast[sym], now)
       IN IF bidq + askq = 0
            THEN /\ UNCHANGED <<qhist, qlast>>
                 /\ mres' = <<[unit |-> "queue", sym |-> sym, pushed |-> FALSE,
                               alert |-> FALSE, side |-> None, now |-> now]>>
            ELSE /\ qhist' = [qhist EXCEPT ![sym] = dq]
                 /\ qlast' = IF alert THEN [qlast EXCEPT ![sym] = now] ELSE qlast
                 /\ mres' = <<[unit |-> "queue", sym |-> sym, pushed |-> TRUE,
                               alert |-> alert,
                               side |-> IF ~alert THEN None
                                        ELSE IF dq[Len(dq)][2].n > 0 THEN "buy" ELSE "sell",
                               now |-> now]>>
  /\ nadd' = nadd + 1
  /\ UNCHANGED <<fhist, flast, shist, slast>>
  /\ UNCHANGED monOthers

QueueNext == QueueMonAdd

MonStart ==
  /\ ConnectorInit /\ HistInit /\ LifeInit /\ HandlerInit /\ PartsInit
  /\ rpc = "snap" /\ snapIdx = 1

SpecQueue == MonStart /\ [][QueueNext]_vars

\* FlowImbalanceMonitor: threshold = FThNum / FThDen = 0.5, min_notional
FThNum == 1
FThDen == 2
FMinNotional == 3

\* trades: side, qty, price
Trades == [side : {"buy", "sell"}, qty : {1, 2}, price : {2}]

RECURSIVE SumVals(_)
\* sum(v for _, v in dq)
SumVals(dq) == IF dq = <<>> THEN 0 ELSE dq[1][2] + SumVals(Tail(dq))

RECURSIVE SumAbs(_)
\* sum(abs(v) for _, v in dq)
SumAbs(dq) == IF dq = <<>> THEN 0 ELSE Abs(dq[1][2]) + SumAbs(Tail(dq))

\* FlowImbalanceMonitor.add without the floor
BelowFloorNever(gross) == FALSE

\* FlowImbalanceMonitor.add: if gross < self.min_notional: return
BelowFloor(gross) == gross < FMinNotional

\* FlowImbalanceMonitor.add: abs(imb) < self.th, imb = total / gross
BelowThreshold(total, gross) == Abs(total) * FThDen < FThNum * gross

\* FlowImbalanceMonitor.add(trade)
FlowMonAdd ==
  /\ nadd < MaxAdd
  /\ \E sym \in CoolSymbols, ts \in MonStamps, trade \in Trades, now \in CoolTimes :
       LET notion == IF trade.side = "buy" THEN trade.qty * trade.price
                     ELSE -(trade.qty * trade.price)
           dq == EvictFront(Append(fhist[sym], <<ts, notion>>), ts - WindowMs)
           gross == SumAbs(dq)
           total == SumVals(dq)
           alert == /\ ~BelowFloor(gross)
                    /\ ~BelowThreshold(total, gross)
                    /\ ~Cooling(flast[sym], now)
       IN /\ fhist' = [fhist EXCEPT ![sym] = dq]
          /\ flast' = IF alert THEN [flast EXCEPT ![sym] = now] ELSE flast
          /\ mres' = <<[unit |-> "flow", sym |-> sym, pushed |-> TRUE, alert |-> alert,
                        side |-> IF ~alert THEN None
                                 ELSE IF total > 0 THEN "buy" ELSE "sell",
                        now |-> now, last |-> flast[sym]]>>
  /\ nadd' = nadd + 1
  /\ UNCHANGED <<qhist, qlast, shist, slast>>
  /\ UNCHANGED monOthers

FlowNext == FlowMonAdd

SpecFlow == MonStart /\ [][FlowNext]_vars

\* SpreadStressMonitor: threshold_bps
SThBps == 100

\* (best_bid, best_ask) of a depth event, each <<>> if absent or <<price>>:
\* spreads of 200, 100 and 20 basis points, and one side missing
Quotes ==
  {[bid |-> <<99>>, ask |-> <<101>>], [bid |-> <<199>>, ask |-> <<201>>],
   [bid |-> <<999>>, ask |-> <<1001>>],
   [bid |-> <<>>, ask |-> <<101>>], [bid |-> <<99>>, ask |-> <<>>]}

\* spread_bps = 1e4 * (ask - bid) / mid with mid = (bid + ask) / 2
SpreadBps(bid, ask) == [n |-> 2 * 10000 * (ask - bid), d |-> bid + ask]

\* a <= b for quotients with positive denominators
RatLe(a, b) == a.n * b.d <= b.n * a.d

\* SpreadStressMonitor.add looking at the newest sample only
WorstLast(dq) == dq[Len(dq)][2]

RECURSIVE Worst(_)
\* max(v for _, v in dq)
Worst(dq) ==
  IF Len(dq) = 1 THEN dq[1][2]
  ELSE LET w == Worst(Tail(dq))
       IN IF RatLe(w, dq[1][2]) THEN dq[1][2] ELSE w

\* SpreadStressMonitor.add(depth)
SpreadMonAdd ==
  /\ nadd < MaxAdd
  /\ \E sym \in CoolSymbols, ts \in MonStamps, quote \in Quotes, now \in CoolTimes :
       IF quote.bid = <<>> \/ quote.ask = <<>>
         THEN /\ UNCHANGED <<shist, slast>>
              /\ mres' = <<[unit |-> "spread", sym |-> sym, pushed |-> FALSE,
                            alert |-> FALSE, side |-> None, now |-> now,
                            last |-> slast[sym]]>>
         ELSE LET dq == EvictFront(Append(shist[sym],
                                          <<ts, SpreadBps(quote.bid[1], quote.ask[1])>>),
                                   ts - WindowMs)
                  worst == Worst(dq)
                  alert == ~(worst.n < SThBps * worst.d) /\ ~Cooling(slast[sym], now)
              IN /\ shist' = [shist EXCEPT ![sym] = dq]
                 /\ slast' = IF alert THEN [slast EXCEPT ![sym] = now] ELSE slast
                 /\ mres' = <<[unit |-> "spread", sym |-> sym, pushed |-> TRUE,
                               alert |-> alert, side |-> None, now |-> now,
                               last |-> slast[sym]]>>
  /\ nadd' = nadd + 1
  /\ UNCHANGED <<qhist, qlast, fhist, flast>>
  /\ UNCHANGED monOthers

SpreadNext == SpreadMonAdd

SpecSpread == MonStart /\ [][SpreadNext]_vars

(***************************************************************************)
(* AlertEngine.check with its history, reference lookup and last_alert map  *)
(***************************************************************************)
\* thresholds: pct_24h = 1/2, pct_short = 1/4
Pct24Num == 1
Pct24Den == 2
PctShortNum == 1
PctShortDen == 4

\* the ticks fed: timestamps in any order (0: none given), prices
EngExchanges == {"binance"}
EngStamps == 0..4
EngPrices == {4, 5, 8}
\* int(time.time() * 1000) when the tick has no timestamp
EngWall == 4

\* now = ts or int(time.time() * 1000)
EngNow(ts, wall) == IF ts = 0 THEN wall ELSE ts

RECURSIVE BisectRight(_, _, _, _)
\* bisect.bisect_right(a, x) between lo and hi (0-based, as in Python)
BisectRight(a, x, lo, hi) ==
  IF lo < hi
    THEN LET mid == (lo + hi) \div 2
         IN IF x < a[mid + 1] THEN BisectRight(a, x, lo, mid)
                              ELSE BisectRight(a, x, mid + 1, hi)
    ELSE lo

\* AlertEngine._price_at_or_before(dq, cutoff): <<>> for None
PriceAtOrBefore(dq, cutoff) ==
  IF dq = <<>> \/ dq[1][1] > cutoff THEN <<>>
  ELSE LET ts_list == [i \in 1..Len(dq) |-> dq[i][1]]
           idx == BisectRight(ts_list, cutoff, 0, Len(ts_list)) - 1
       IN IF idx >= 0 THEN <<dq[idx + 1][2]>> ELSE <<>>

\* abs(pct) >= threshold taking the move upwards only
PctMeetsUp(price, ref, num, den) == (price - ref) * den >= num * ref

\* abs((price - ref) / ref) >= num / den
PctMeets(price, ref, num, den) == Abs(price - ref) * den >= num * Abs(ref)

\* check: one window; 'if ref_price:' takes a reference of 0 as none
WindowFires(price, ref, num, den, last, now) ==
  /\ ref # <<>> /\ ref[1] # 0
  /\ PctMeets(price, ref[1], num, den)
  /\ ShouldAlert(last, now)

\* AlertEngine.check(exchange, symbol, price, ts)
EngineCheck ==
  /\ nchk < MaxChk
  /\ \E exchange \in EngExchanges, symbol \in CoolSymbols, price \in EngPrices,
        ts \in EngStamps :
       LET now == EngNow(ts, EngWall)
           key == <<exchange, symbol>>
           dq == EvictFront(Append(ehist[key], <<now, price>>),
                            now - (IF W24Ms > WShortMs THEN W24Ms ELSE WShortMs))
           t24 == <<exchange, symbol, "24h">>
           tshort == <<exchange, symbol, "short">>
           ref24 == PriceAtOrBefore(dq, now - W24Ms)
           a24 == WindowFires(price, ref24, Pct24Num, Pct24Den, etag[t24], now)
           refshort == PriceAtOrBefore(dq, now - WShortMs)
           ashort == WindowFires(price, refshort, PctShortNum, PctShortDen,
                                 etag[tshort], now)
       IN /\ ehist' = [ehist EXCEPT ![key] = dq]
          /\ etag' = [k \in EngineKeys |->
                        IF (k = t24 /\ a24) \/ (k = tshort /\ ashort) THEN now
                        ELSE etag[k]]
          /\ eres' = <<[key |-> key, price |-> price, now |-> now,
                        ref |-> [t \in WindowTags |-> IF t = "24h" THEN ref24 ELSE refshort],
                        last |-> [t \in WindowTags |-> etag[<<exchange, symbol, t>>]],
                        alerts |-> (IF a24 THEN <<"24h">> ELSE <<>>)
                                     \o (IF ashort THEN <<"short">> ELSE <<>>)]>>
  /\ nchk' = nchk + 1
  /\ UNCHANGED engOthers

EngineNext == EngineCheck

EngineStart ==
  /\ ConnectorInit /\ HistInit /\ LifeInit /\ HandlerInit /\ PartsInit
  /\ rpc = "snap" /\ snapIdx = 1

SpecEngine == EngineStart /\ [][EngineNext]_vars

(***************************************************************************)
(* Properties of the order-book maintenance                                *)
(***************************************************************************)
\* the book a snapshot stands for: its levels with a non-zero quantity
SnapshotBook(levels) ==
  LET nz == SelectSeq(levels, LAMBDA l : l[2] > 0)
  IN [p \in {nz[i][1] : i \in 1..Len(nz)} |-> LastWritten(nz, p)[1]]

\* a book side with a cumulative diff applied: the last written quantity wins,
\* quantity 0 means the level is absent
Cumulative(base, c) ==
  [p \in {x \in Prices : IF c[x] = <<>> THEN x \in DOMAIN base ELSE c[x][1] > 0} |->
     IF c[p] = <<>> THEN base[p] ELSE c[p][1]]

SameBook(s) == bids'[s] = bids[s] /\ asks'[s] = asks[s] /\ last_id'[s] = last_id[s]

\* a step of _handle_depth: the router took a message and did not leave the session
HandlerStep == rpc = "recv" /\ rpc' # "snap"

C1_GapStep ==
  (HandlerStep /\ cls'.gap) =>
     /\ rpc' = "resync"
     /\ rsym' = cls'.sym
     /\ dl' = [s \in Symbols |-> IF s = cls'.sym THEN 1 ELSE 0]
     /\ out' = <<>>
     /\ \A s \in Symbols : SameBook(s)

C1_ResyncStep ==
  (rpc = "resync") =>
     /\ rpc' = "recv"
     /\ dl' = dl
     /\ out' = <<>>
     /\ \A s \in Symbols \ {rsym} : SameBook(s)
     /\ \/ SameBook(rsym)
        \/ /\ rsnap' # <<>>
           /\ bids'[rsym] = SnapshotBook(rsnap'[1].bids)
           /\ asks'[rsym] = SnapshotBook(rsnap'[1].asks)
           /\ last_id'[rsym] = rsnap'[1].lastUpdateId

\* C1: a delta with first_id > last_update_id + 1 leaves every book as it is,
\* emits nothing and starts exactly one snapshot download, for its own symbol;
\* until that download ends no other message is handled, and when it ends the
\* symbol's bids, asks and last_update_id are either all three those of the
\* downloaded snapshot or all three untouched, the other symbols' books unchanged.
C1_GapResync == [][C1_GapStep /\ C1_ResyncStep]_vars

\* a gap delta was answered by a completed resync while the other symbol holds a book
C1_Witness ==
  /\ outcome.kind = "resynced"
  /\ cls.gap
  /\ dl[cls.sym] = 1
  /\ rsnap # <<>>
  /\ \E s \in Symbols \ {cls.sym} : DOMAIN bids[s] # {}

\* C2: a delta with last_id <= last_update_id changes no bids map, asks map or
\* last_update_id, starts no resync (no download) and emits no DepthUpdate.
C2_StaleNoOp ==
  [][(HandlerStep /\ cls'.stale) =>
       /\ \A s \in Symbols : SameBook(s)
       /\ rpc' = "recv"
       /\ dl' = NoDownloads
       /\ out' = <<>>]_vars

\* a stale delta was handled for a symbol whose book holds levels
C2_Witness ==
  /\ outcome.kind = "stale"
  /\ cls.stale
  /\ last_id[cls.sym] > 0
  /\ DOMAIN bids[cls.sym] # {}
  /\ DOMAIN asks[cls.sym] # {}

\* C3: after a snapshot and any sequence of deltas with contiguous ids, applied one
\* by one, each side of the book equals the snapshot's non-zero levels with the
\* cumulative diff applied (per price the last written quantity wins, 0 removes),
\* and last_update_id is the last delta's last_id (the snapshot's when none came).
C3_CumulativeDiff ==
  snap0 # <<>> =>
    /\ bids["A"] = Cumulative(SnapshotBook(snap0[1].bids), cum["b"])
    /\ asks["A"] = Cumulative(SnapshotBook(snap0[1].asks), cum["a"])
    /\ last_id["A"] = IF nseq = 0 THEN snap0[1].lastUpdateId ELSE lastu

\* two or more deltas were applied; they removed a level of the snapshot and wrote
\* another price with quantity 2
C3_Witness ==
  /\ snap0 # <<>>
  /\ nseq = 2
  /\ \E p \in DOMAIN SnapshotBook(snap0[1].bids) : cum["b"][p] = <<0>>
  /\ \E p \in Prices : cum["b"][p] = <<2>> /\ p \in DOMAIN bids["A"]

\* C4: for a delta that was applied, a DepthUpdate is emitted exactly when both
\* sides of the book are non-empty after it; the event's best_bid is the book's
\* level of maximum bid price, its best_ask the level of minimum ask price, and
\* its price their mid.
C4_Emission ==
  outcome.kind \in {"emitted", "incomplete"} =>
    LET s == outcome.sym
    IN /\ (out # <<>>) <=> (DOMAIN bids[s] # {} /\ DOMAIN asks[s] # {})
       /\ out # <<>> =>
            /\ out[1].symbol = s
            /\ out[1].best_bid[1] \in DOMAIN bids[s]
            /\ \A p \in DOMAIN bids[s] : p <= out[1].best_bid[1]
            /\ out[1].best_bid[2] = bids[s][out[1].best_bid[1]]
            /\ out[1].best_ask[1] \in DOMAIN asks[s]
            /\ \A p \in DOMAIN asks[s] : p >= out[1].best_ask[1]
            /\ out[1].best_ask[2] = asks[s][out[1].best_ask[1]]
            /\ out[1].price[2] > 0
            /\ 2 * out[1].price[1] = out[1].price[2] * (out[1].best_bid[1] + out[1].best_ask[1])

\* a DepthUpdate was emitted from a book with two levels on each side
C4_Witness ==
  /\ outcome.kind = "emitted"
  /\ out # <<>>
  /\ DOMAIN bids["A"] = Prices
  /\ DOMAIN asks["A"] = Prices

\* the scenario of the claim: the snapshot had a bid, the deltas removed the last
\* bid level, the asks remain, and nothing was emitted
C4_Scenario ==
  /\ outcome.kind = "incomplete"
  /\ out = <<>>
  /\ snap0 # <<>>
  /\ DOMAIN SnapshotBook(snap0[1].bids) # {}
  /\ DOMAIN bids["A"] = {}
  /\ DOMAIN asks["A"] # {}

\* a step of _handle_depth that applied its delta
AppliedStep == HandlerStep /\ outcome'.kind \in {"emitted", "incomplete"}

C31_Step ==
  /\ AppliedStep =>
       LET s == cls'.sym
       IN /\ outcome'.sym = s
          /\ ~cls'.gap /\ ~cls'.stale
          /\ cls'.upto > 0 /\ last_id'[s] = cls'.upto
          /\ last_id[s] < last_id'[s]
  /\ \A s \in Symbols :
       (HandlerStep /\ ~SameBook(s)) => (AppliedStep /\ cls'.sym = s)

\* C31: a delta is applied only when first_id <= last_update_id + 1 <= last_id
\* holds before it, and last_update_id = last_id after it; a delta that leaves a
\* gap, or one whose range the cursor already covers (the same delta again),
\* changes no book.
C31_Contiguous == [][C31_Step]_vars

\* a delta contiguous with the cursor was applied and moved it to its last_id
C31_Witness ==
  /\ outcome.kind = "emitted" /\ outcome.sym = cls.sym
  /\ ~cls.gap /\ ~cls.stale
  /\ cls.upto >= 2 /\ last_id[cls.sym] = cls.upto

\* C32: for each symbol last_update_id never decreases, whatever is applied,
\* discarded, resynced or reloaded at a reconnect, and an applied delta
\* strictly increases it.
C32_CursorMonotonic ==
  [][/\ \A s \in Symbols : last_id[s] <= last_id'[s]
     /\ AppliedStep => last_id[outcome'.sym] < last_id'[outcome'.sym]]_vars

\* C32, the part on applied deltas alone
C32_AppliedIncreases ==
  [][AppliedStep => last_id[outcome'.sym] < last_id'[outcome'.sym]]_vars

NoZeroLevel(book) == \A p \in DOMAIN book : book[p] # 0

\* what the deltas since the snapshot wrote last for a price decides the level
WrittenDecides(book, c) ==
  \A p \in Prices :
    /\ c[p] = <<0>> => p \notin DOMAIN book
    /\ (c[p] # <<>> /\ c[p] # <<0>>) => (p \in DOMAIN book /\ book[p] = c[p][1])

\* C33: no bid or ask map ever holds a level with quantity zero; a price whose
\* last pair in the deltas had qty = 0 is absent, also if it never was present,
\* and one whose last pair had qty > 0 is present with that quantity.
C33_NoZeroLevel ==
  /\ \A s \in Symbols : NoZeroLevel(bids[s]) /\ NoZeroLevel(asks[s])
  /\ snap0 # <<>> => (WrittenDecides(bids["A"], cum["b"]) /\ WrittenDecides(asks["A"], cum["a"]))

\* the snapshot listed a level with quantity zero, a delta wrote zero to a price
\* the book did not hold, and another delta overwrote a level of the snapshot
C33_Witness ==
  /\ snap0 # <<>> /\ nseq = 2
  /\ \E i \in 1..Len(snap0[1].bids) : snap0[1].bids[i][2] = 0
  /\ \E p \in Prices : cum["a"][p] = <<0>> /\ p \notin DOMAIN SnapshotBook(snap0[1].asks)
  /\ \E p \in DOMAIN SnapshotBook(snap0[1].asks) :
       p \in DOMAIN asks["A"] /\ asks["A"][p] # SnapshotBook(snap0[1].asks)[p]

(***************************************************************************)
(* Properties of the connector's life cycle                                *)
(***************************************************************************)
Ended == {"returned", "cancelled", "raised"}
FaultEvents == {"snap_fault", "connect_fault", "subscribe_fault", "drop"}

\* a step of start() at which a transport fault of the session showed
FaultStep == <<spc, attempt>>' # <<spc, attempt>> /\ lastev' \in FaultEvents

\* C5: after stop() is invoked start() returns by itself, without a
\* cancellation and without another inbound message, wherever it was
\* suspended; and the socket stop() finds open is closed with code 1000.
C5_ReturnsAfterStop == (stop_event /\ ~cancelled) ~> (spc = "returned" \/ cancelled)
C5_ClosedNormally ==
  (stop_pc = "closing" /\ stop_pc' = "done") =>
    (conn' = "closed" /\ close_code' = NormalClosure)
C5_StopEndsStart == C5_ReturnsAfterStop /\ [][C5_ClosedNormally]_vars

\* C6: no fault ends start().  A snapshot error, a connect or subscribe failure
\* and a connection drop are caught in start(), counted in attempt and followed
\* by the loop head (the backoff sleep of the next session, or the return when
\* stop() was invoked); start() ends only after stop() or a cancellation, and
\* never by an exception raised from a fault.
C6_Counted ==
  FaultStep =>
    /\ attempt' = attempt + 1
    /\ spc' \in {"sleep", "returned"}
    /\ spc' = "returned" => stop_event
C6_Ends ==
  /\ spc # "raised"
  /\ spc = "returned" => stop_event \/ cancelled
  /\ spc = "cancelled" => cancelled
C6_FaultsRetried == []C6_Ends /\ [][C6_Counted]_vars

\* a connection drop was caught and counted a second time, and start() waits
\* to open the next session
C6_Witness == lastev = "drop" /\ attempt = 2 /\ spc = "sleep" /\ ~stop_event /\ ~cancelled

\* C22: the events of one connector are handled in the order of arrival of
\* their messages, and the handling of one has returned before the handling
\* of the next starts.
C22_Step ==
  (hopen' # hopen /\ hopen' # 0) =>
    /\ hopen = 0
    /\ hlog' = Append(hlog, hopen')

C22_InOrder ==
  /\ \A i, j \in 1..Len(hlog) : i < j => hlog[i] < hlog[j]
  /\ \A i \in 1..Len(hlog) : hlog[i] <= wseq
  /\ hopen # 0 => (spc = "handling" /\ hlog # <<>> /\ hopen = hlog[Len(hlog)])

C22_WireOrder == []C22_InOrder /\ [][C22_Step]_vars

\* the event of a second message is being handled, after a message that
\* yielded no event and one whose event was handled
C22_Witness == hlog = <<1, 3>> /\ hopen = 3 /\ spc = "handling"

(***************************************************************************)
(* Properties of the dispatcher                                            *)
(***************************************************************************)
\* a mail send is awaited: by a monitor, or by _dispatch_with_retry
InFlight == {"mon_send", "send"}

\* C7: handle_tick never lets an exception reach the connector: whatever the
\* event and whichever of sink, store, monitor or mail collaborator fails, the
\* call returns normally, and with the fault the call is over (nothing more is
\* done for the event).
C7_NoPropagation ==
  \A c \in Exchanges :
    /\ calls[c].res # "raised"
    /\ calls[c].fault => calls[c].pc = "idle" /\ calls[c].res = "returned"

\* a call in which something raised has returned normally, while the call of
\* the other connector is in the middle of a delivery
C7_Witness ==
  \E c, d \in Exchanges :
    /\ calls[c].fault /\ calls[c].res = "returned" /\ calls[c].pc = "idle"
    /\ calls[d].pc = "send"

\* C8: every alert of a handle call, whichever unit produced it, is sent only
\* while the call holds the Lock of the event's (exchange, symbol), so that at
\* most one mail send is in flight per (exchange, symbol).
C8_SentUnderLock ==
  /\ \A c \in Exchanges :
       calls[c].pc \in InFlight => lock[Key(calls[c])] = c
  /\ \A k \in Keys :
       Cardinality({c \in Exchanges : calls[c].pc \in InFlight /\ Key(calls[c]) = k}) <= 1

\* C9: after the mail collaborator reported success for an alert, that alert is
\* neither attempted again nor followed by a retry sleep.
C9_SentOnce ==
  \A c \in Exchanges :
    calls[c].okseen => calls[c].pc \notin {"send", "retry_sleep"}

\* C10: the retry loop makes at most 1 + MAX_RETRIES attempts for an alert;
\* after the last one the alert is given up, the loop ends (the next alert of
\* the list begins, or handle_tick returns normally) and nothing is raised.
C10_Bound ==
  \A c \in Exchanges :
    /\ calls[c].nsent <= 1 + MAX_RETRIES
    /\ calls[c].abandoned # "no" => calls[c].res # "raised"
    /\ calls[c].abandoned # "no" /\ calls[c].pc = "idle" => calls[c].res = "returned"
C10_GiveUp ==
  \A c \in Exchanges :
    (calls[c].pc = "retry_sleep" /\ calls[c].nsent = 1 + MAX_RETRIES /\ calls'[c] # calls[c]) =>
      /\ calls'[c].abandoned # "no"
      /\ \/ calls'[c].pc = "idle" /\ calls'[c].res = "returned"
         \/ calls'[c].pc = "send" /\ calls'[c].nsent = 1 /\ calls'[c].left = calls[c].left - 1
C10_BoundedRetry == []C10_Bound /\ [][C10_GiveUp]_vars

\* every attempt for an alert failed, the alert was given up and the call
\* returned normally without a fault
C10_Witness ==
  \E c \in Exchanges :
    /\ calls[c].abandoned = "failed"
    /\ calls[c].pc = "idle" /\ calls[c].res = "returned" /\ ~calls[c].fault

\* the connector c can hand its next event to handle_tick
NextEventTaken(c) == TickSinkFault(c) \/ TickTrade(c) \/ TickDepth(c) \/ TickTicker(c)

\* C11: a delivery that is being retried does not hold up later events: while
\* _dispatch_with_retry awaits a send or sleeps between attempts for an event
\* of a connector, the next event of that connector can be handled.
C11_NextEventHandled ==
  \A c \in Exchanges :
    (calls[c].pc = "retry_sleep" \/ (calls[c].pc = "send" /\ calls[c].nsent > 1)) =>
      ENABLED NextEventTaken(c)

(***************************************************************************)
(* Properties of the rolling window                                        *)
(***************************************************************************)
\* C13: after a _push(sym, ts, v), whatever was pushed before, every sample
\* held for sym has a timestamp greater than ts - window.
C13_WindowKept ==
  wlast # <<>> =>
    \A i \in 1..Len(whist[wlast[1].sym]) :
      whist[wlast[1].sym][i][1] > wlast[1].ts - WindowMs

(***************************************************************************)
(* Properties of the cooldown                                              *)
(***************************************************************************)
\* C12: of two qualifying conditions for one key that lie less than the
\* cooldown apart, whatever the order of their timestamps, the first emits an
\* alert and the second none: a qualifying condition that lies less than the
\* cooldown from an alert emitted for its key emits nothing; the first
\* qualifying condition of a key emits; and so two alerts of a key are never
\* less than the cooldown apart.  A failed delivery and a send in flight in
\* another connector's call change nothing.
C12_Cooldown ==
  /\ lastq # <<>> =>
       /\ lastq[1].early # {} => ~lastq[1].emitted
       /\ lastq[1].first => lastq[1].emitted
  /\ \A k \in CoolKeys : \A t1, t2 \in emits[k] :
       t1 < t2 => t2 - t1 >= CooldownMs

\* a qualifying condition with an older timestamp than the alert emitted less
\* than the cooldown from it is suppressed while that alert is being sent in
\* the call of the other connector
C12_Witness ==
  /\ lastq # <<>>
  /\ ~lastq[1].emitted
  /\ \E t1 \in lastq[1].early : lastq[1].t < t1
  /\ \E c \in Exchanges : sending[c] = <<lastq[1].key>>
  /\ \E d \in Exchanges : sending[d] = <<>> /\ lastq[1].key \in KeysOf(d)

\* a qualifying condition is suppressed after the delivery of the alert less
\* than the cooldown before it has failed
C12_AfterFailure ==
  /\ lastq # <<>>
  /\ ~lastq[1].emitted
  /\ lastq[1].early # {}
  /\ failed[lastq[1].key]
  /\ \A c \in Exchanges : sending[c] = <<>>


(***************************************************************************)
(* Properties of the routing in handle_tick (SpecRoute)                    *)
(***************************************************************************)
\* the call that returned in the last step
Last == done[1]

FeedsOf(r) == {r.feeds[i] : i \in 1..Len(r.feeds)}

\* the event of the call that made the step
StepEv == IF done' # <<>> THEN done'[1].ev ELSE rc'[actor'].ev

EngineUntouched == UNCHANGED <<store, history, elast>>

C15_TradeFrame ==
  StepEv.event = "trade" =>
    /\ EngineUntouched
    /\ \A u \in {"spread", "queue"} : mhist'[u] = mhist[u] /\ mlast'[u] = mlast[u]

C15_TradeFed ==
  (done # <<>> /\ Last.ev.event = "trade") => FeedsOf(Last) \subseteq {"sink", "flow"}

C15_TradeToFlowOnly == []C15_TradeFed /\ [][C15_TradeFrame]_vars

C15_Witness ==
  /\ done # <<>> /\ Last.ev.event = "trade" /\ ~Last.fault
  /\ Last.feeds = <<"sink", "flow">>
  /\ mhist["flow"][Last.ev.symbol] # <<>>
  /\ \E k \in RouteKeys : store[k] # <<>> /\ history[k] # <<>>

\* C16: a ticker with a numeric price is written to the store under its
\* (exchange, symbol), then fed to the engine with the same price and
\* timestamp; the monitors' state is unchanged and every alert the engine
\* returns is handed to the delivery loop.
C16_TickerStored(r) ==
  (r.ev.event = "ticker" /\ r.ev.pk = "num" /\ r.sink_ok) =>
    LET key == <<r.ev.exchange, r.ev.symbol>>
    IN /\ r.feeds = <<"sink", "store", "engine">>
       /\ store[key] = <<[price |-> r.ev.price, timestamp |-> r.ev.timestamp]>>
       /\ history[key] # <<>>
       /\ history[key][Len(history[key])] = <<r.ev.timestamp, r.ev.price>>
       /\ r.handed = r.found

C16_TickerState ==
  /\ done # <<>> => C16_TickerStored(Last)
  /\ \A c \in Exchanges : rc[c].pc # "idle" => C16_TickerStored(rc[c])

C16_TickerFrame == StepEv.event = "ticker" => UNCHANGED <<mhist, mlast>>

C17_SinkFailureHarmless ==
  /\ sink_n = ncalls
  /\ (done # <<>> /\ ~Last.sink_ok) => FeedsOf(Last) # {"sink"}

\* C18: an event whose price is missing or not a number does not reach the
\* store or the price-move engine: the store entry, the engine's history
\* and cooldown map are unchanged and no alert is sent.
C18_DropFrame ==
  (StepEv.event \in {"ticker", "trade"} /\ StepEv.pk # "num") =>
    /\ EngineUntouched
    /\ rc'[actor'].pc = "idle"

C18_DropState ==
  (done # <<>> /\ Last.ev.event \in {"ticker", "trade"} /\ Last.ev.pk # "num") =>
    /\ FeedsOf(Last) \cap {"store", "engine"} = {}
    /\ Last.found = 0 /\ Last.handed = 0

C23_Atomic ==
  \A c \in Exchanges : rc[c].pc = "spread_send" => actor = c

(***************************************************************************)
(* Properties of the stores (SpecStore)                                    *)
(***************************************************************************)
\* what the last update of a key asked the store to hold
Asked(k) ==
  IF lastcall[k] = <<>> THEN <<>>
  ELSE <<[price |-> lastcall[k][1].price,
          timestamp |-> IF lastcall[k][1].timestamp = 0 THEN lastcall[k][1].now
                        ELSE lastcall[k][1].timestamp]>>

\* C19: get_latest returns the price and timestamp of the key's most recent
\* update by call order, absent for a key never updated, and an update of one
\* key leaves the entries of the others unchanged.
C19_Latest == \A k \in RouteKeys : MemGetLatest(mem, k[1], k[2]) = Asked(k)

C19_OthersKept ==
  \A k \in RouteKeys :
    (supd' # <<>> /\ supd'[1] # k) =>
      MemGetLatest(mem', k[1], k[2]) = MemGetLatest(mem, k[1], k[2])

C19_LastWriteWins == []C19_Latest /\ [][C19_OthersKept]_vars

C19_Witness ==
  /\ \A k \in RouteKeys : mem[k] # <<>>
  /\ \E k \in RouteKeys : supd = <<k>> /\ lastcall[k][1].timestamp = 1
                          /\ nup = 3 /\ mem[k][1].timestamp = 1
  /\ \E k \in RouteKeys : supd # <<k>> /\ mem[k][1].timestamp = 2

\* C20: after the same update calls and any evictions, get_latest of the
\* RedisStore returns what get_latest of the MemoryStore returns, for every
\* key; a copy in Redis older than the key's last update is never returned.
C20_Interchangeable ==
  \A k \in RouteKeys :
    RedisGetLatest(hot, cold, k[1], k[2]) = MemGetLatest(mem, k[1], k[2])

\* a key was evicted, updated again, and its older copy is still in Redis;
\* another key is served from Redis
C20_Witness ==
  /\ \E k \in RouteKeys :
       /\ hot[k] # <<>> /\ cold[RedisKey(k[1], k[2])] # <<>>
       /\ JsonLoads(cold[RedisKey(k[1], k[2])][1]) # hot[k][1]
  /\ \E k \in RouteKeys : hot[k] = <<>> /\ cold[RedisKey(k[1], k[2])] # <<>>


\* the hot tier right after the write of the last update, before _maybe_evict
Written ==
  LET k == supd'[1]
      a == lastcall'[k][1]
  IN StoreUpdate(hot, k[1], k[2], a.price, a.timestamp, a.now)

\* C21: an update evicts only when the sampled memory exceeds the ceiling;
\* it then moves to Redis exactly the hot entries older than the hot window
\* and keeps the others; otherwise the hot tier changes only at the updated
\* key and nothing is written to Redis.
C21_Step ==
  nup' = nup + 1 =>
    IF sev'[1].rss > MaxBytes
      THEN \A k \in RouteKeys :
             IF k \in Victims(Written, sev'[1].later)
               THEN /\ hot'[k] = <<>>
                    /\ cold'[RedisKey(k[1], k[2])] = <<JsonDumps(Written[k][1])>>
               ELSE /\ hot'[k] = Written[k]
                    /\ cold'[RedisKey(k[1], k[2])] = cold[RedisKey(k[1], k[2])]
      ELSE /\ cold' = cold
           /\ \A k \in RouteKeys : k # supd'[1] => hot'[k] = hot[k]

C21_EvictOnlyOverCeiling == [][C21_Step]_vars


(***************************************************************************)
(* Properties of the monitors (SpecQueue, SpecFlow, SpecSpread)            *)
(***************************************************************************)
\* C24: the queue monitor alerts only if every sample in the symbol's window
\* has magnitude >= threshold (one sample below it: no alert, whatever the
\* cooldown); an event with both quantities zero adds no sample.
C24_AllOrNothing ==
  (mres # <<>> /\ mres[1].unit = "queue") =>
    LET dq == qhist[mres[1].sym]
    IN /\ mres[1].alert => (mres[1].pushed /\ \A i \in 1..Len(dq) : QMeets(dq[i][2]))
       /\ (\E i \in 1..Len(dq) : ~QMeets(dq[i][2])) => ~mres[1].alert

C24_ZeroSkipped ==
  (mres' # <<>> /\ mres'[1].unit = "queue" /\ ~mres'[1].pushed) =>
    (qhist' = qhist /\ qlast' = qlast /\ ~mres'[1].alert)

C24_QueueSustained == []C24_AllOrNothing /\ [][C24_ZeroSkipped]_vars

\* the window holds 0.8, 0.75, 0.3, and the cooldown of the earlier alert is
\* over
C24_Witness ==
  /\ mres # <<>> /\ mres[1].unit = "queue" /\ ~mres[1].alert /\ mres[1].pushed
  /\ \E s \in CoolSymbols :
       /\ Len(qhist[s]) = 3
       /\ qhist[s][1][2] = [n |-> 8, d |-> 10]
       /\ qhist[s][2][2] = [n |-> 6, d |-> 8]
       /\ qhist[s][3][2] = [n |-> 6, d |-> 20]
       /\ ~Cooling(qlast[s], mres[1].now)


C25_BelowFloor ==
  /\ mres # <<>> /\ mres[1].unit = "flow" /\ ~mres[1].alert
  /\ SumAbs(fhist[mres[1].sym]) < FMinNotional
  /\ Abs(SumVals(fhist[mres[1].sym])) = SumAbs(fhist[mres[1].sym])
  /\ mres[1].now - mres[1].last >= CooldownMs


\* C26: on a depth event with both best prices the spread monitor alerts
\* exactly when the largest spread in the symbol's window is at or above the
\* threshold and the cooldown has elapsed; an event lacking a best price adds
\* no sample and emits nothing.
C26_PeakAlert ==
  (mres # <<>> /\ mres[1].unit = "spread" /\ mres[1].pushed) =>
    LET dq == shist[mres[1].sym]
    IN mres[1].alert <=>
         /\ \E i \in 1..Len(dq) : dq[i][2].n >= SThBps * dq[i][2].d
         /\ mres[1].now - mres[1].last >= CooldownMs

C26_OneSided ==
  (mres' # <<>> /\ mres'[1].unit = "spread" /\ ~mres'[1].pushed) =>
    (shist' = shist /\ slast' = slast /\ ~mres'[1].alert)

Alerted(t) == \E i \in 1..Len(eres[1].alerts) : eres[1].alerts[i] = t

ThNum(t) == IF t = "24h" THEN Pct24Num ELSE PctShortNum
ThDen(t) == IF t = "24h" THEN Pct24Den ELSE PctShortDen

\* the window's reference exists and the move from it meets the threshold
Moved(t) ==
  /\ eres[1].ref[t] # <<>>
  /\ Abs(eres[1].price - eres[1].ref[t][1]) * ThDen(t) >= ThNum(t) * eres[1].ref[t][1]

\* C27, as stated: a window emits exactly when its reference exists, the move
\* meets the window's threshold and the time since the tag's last alert
\* exceeds the cooldown (a tag without a recorded alert is not held back).
C27_ExceedsCooldown ==
  eres # <<>> =>
    \A t \in WindowTags :
      Alerted(t) <=>
        /\ Moved(t)
        /\ eres[1].last[t] = 0 \/ eres[1].now - eres[1].last[t] > CooldownMs

\* C27, amended: ... and the time since the tag's last alert (0 if none is
\* recorded) is at least the cooldown; the tag's entry becomes now exactly
\* when it emits, whatever the other window did in the same call.
C27_WindowsIndependent ==
  eres # <<>> =>
    \A t \in WindowTags :
      LET tag == <<eres[1].key[1], eres[1].key[2], t>>
      IN /\ Alerted(t) <=>
              (Moved(t) /\ eres[1].now - eres[1].last[t] >= CooldownMs)
         /\ etag[tag] = IF Alerted(t) THEN eres[1].now ELSE eres[1].last[t]

\* both windows fire in one call, the short one a cooldown after its last alert
C27_Witness ==
  /\ eres # <<>> /\ eres[1].alerts = <<"24h", "short">>
  /\ eres[1].last["short"] # 0
  /\ eres[1].now - eres[1].last["short"] = CooldownMs

\* one window is held back by its cooldown while the other fires
C27_OneHeld ==
  /\ eres # <<>> /\ eres[1].alerts = <<"24h">>
  /\ Moved("short") /\ eres[1].now - eres[1].last["short"] < CooldownMs


(***************************************************************************)
(* Properties of the reconnect backoff                                     *)
(***************************************************************************)
Min2(a, b) == IF a < b THEN a ELSE b

\* C28: start() sleeps only with attempt >= 1 (never before the first
\* session); after the k-th consecutive fault the sleep d has b <= d <= 1.2 b
\* for b = min(base_delay * 2^k, 60), so d <= 72, and as long as b is below
\* the cap d is not below the sleep that followed the fault before.
C28_BackoffDelay ==
  /\ spc = "sleep" => attempt >= 1
  /\ attempt = 0 => lastev # "slept"
  /\ lastev = "slept" =>
       LET k == attempt
           b == Min2(BaseDelay * 2^k, 60)
           d == slept[1].d
       IN /\ slept[1].attempt = k /\ k >= 1
          /\ b <= d /\ 10 * d <= 12 * b
          /\ d <= 72
          /\ (k >= 2 /\ BaseDelay * 2^k < 60) => slept[1].before <= d

\* the sleep after the fourth consecutive fault: capped at 60 s, with the
\* whole jitter, after a sleep of 48 s
C28_Witness ==
  /\ lastev = "slept" /\ attempt = 4
  /\ slept[1].d = 72 /\ slept[1].before = 48

\* C29: a fault that ends a session whose snapshots were loaded and whose
\* stream was opened and subscribed leaves the attempt counter at 1, whatever
\* faults preceded that session.
C29_ResetAfterSession == lastev = "drop" => attempt = 1


(***************************************************************************)
(* Properties of the sessions                                              *)
(***************************************************************************)
\* the side a snapshot's level list stands for: the pairs with a positive
\* quantity, the last such pair of a price giving its quantity
SideOf(levels, book) ==
  LET pos == {i \in 1..Len(levels) : levels[i][2] > 0}
  IN /\ DOMAIN book = {levels[i][1] : i \in pos}
     /\ \A p \in DOMAIN book :
          book[p] = levels[CHOOSE i \in pos :
                             levels[i][1] = p /\ \A j \in pos : levels[j][1] = p => j <= i][2]

\* C30: the stream is open only with every configured symbol loaded from a
\* snapshot of the current session; until the first delta of the session is
\* examined each book is exactly its snapshot (bids, asks and last_update_id,
\* nothing of the session before); and a delta is applied only to a book
\* loaded in the current session.
C30_SnapshotFirst ==
  /\ rpc \in {"recv", "resync"} => loaded = Symbols
  /\ \A s \in Symbols :
       lsnap[s] # <<>> =>
         /\ s \in loaded
         /\ SideOf(lsnap[s][1].bids, bids[s])
         /\ SideOf(lsnap[s][1].asks, asks[s])
         /\ last_id[s] = lsnap[s][1].lastUpdateId
  /\ outcome.kind \in {"incomplete", "emitted"} => outcome.sym \in loaded

\* a later session has loaded its first symbol while the second book still is
\* the one the session before left, with levels in it
C30_Witness ==
  /\ rpc = "snap" /\ loaded = {"A"} /\ lsnap["A"] # <<>>
  /\ DOMAIN bids["B"] # {} /\ last_id["B"] > 0


(***************************************************************************)
(* Properties of the reference lookup                                      *)
(***************************************************************************)
WindowOf(t) == IF t = "24h" THEN W24Ms ELSE WShortMs

\* a linear scan: the sample with the largest timestamp <= cutoff, the one
\* appended last among equals; <<>> if there is none
LinearRef(dq, cutoff) ==
  LET ok == {i \in 1..Len(dq) : dq[i][1] <= cutoff}
  IN IF ok = {} THEN <<>>
     ELSE LET i == CHOOSE x \in ok :
                     \A y \in ok : dq[y][1] < dq[x][1] \/ (dq[y][1] = dq[x][1] /\ y <= x)
          IN <<dq[i][2]>>

Sorted(dq) == \A i \in 1..(Len(dq) - 1) : dq[i][1] <= dq[i + 1][1]

\* C34: for each window the reference the engine uses is the price of the
\* latest sample of the retained history with timestamp <= now - window, none
\* if there is no such sample, for ticks in any order of timestamps.
C34_ReferenceIsLinearScan ==
  eres # <<>> =>
    \A t \in WindowTags :
      eres[1].ref[t] = LinearRef(ehist[eres[1].key], eres[1].now - WindowOf(t))

\* C34 for histories whose timestamps are in non-decreasing order
C34_SortedReference ==
  (eres # <<>> /\ Sorted(ehist[eres[1].key])) =>
    \A t \in WindowTags :
      eres[1].ref[t] = LinearRef(ehist[eres[1].key], eres[1].now - WindowOf(t))


\* C39: with the long window the larger one, a long-window reference is found
\* only if the retained history holds a sample stamped exactly now - window_long;
\* no older sample is retained, and the reference is the price of a sample
\* stamped exactly now - window_long.
C39_ExactStampOnly ==
  (eres # <<>> /\ W24Ms >= WShortMs /\ eres[1].ref["24h"] # <<>>) =>
    LET dq == ehist[eres[1].key]
        cutoff == eres[1].now - W24Ms
    IN /\ \E i \in 1..Len(dq) : dq[i][1] = cutoff
       /\ \A i \in 1..Len(dq) : dq[i][1] >= cutoff
       /\ \E i \in 1..Len(dq) : dq[i][1] = cutoff /\ eres[1].ref["24h"] = <<dq[i][2]>>

\* C39 for histories whose timestamps are in non-decreasing order
C39_SortedExactStamp ==
  (eres # <<>> /\ W24Ms >= WShortMs /\ eres[1].ref["24h"] # <<>>
     /\ Sorted(ehist[eres[1].key])) =>
    LET dq == ehist[eres[1].key]
        cutoff == eres[1].now - W24Ms
    IN /\ \A i \in 1..Len(dq) : dq[i][1] >= cutoff
       /\ \E i \in 1..Len(dq) : dq[i][1] = cutoff /\ eres[1].ref["24h"] = <<dq[i][2]>>


(***************************************************************************)
(* Properties of faulty messages                                           *)
(***************************************************************************)
\* a step in which _router dropped a message
DropStep == dropped' # dropped

C35_InOrder ==
  /\ \A i \in 1..Len(hlog) : hlog[i] \notin dropped
  /\ hopen \notin dropped

\* C35: a message with a decode or shape fault is dropped alone: no event is
\* passed on for it, the session stays as it is (socket open, router waiting
\* for the next message, no fault counted, no sleep), so that the next message
\* is taken as any other.
C35_FaultDropsOneMessage ==
  /\ []C35_InOrder
  /\ [][DropStep =>
          /\ spc = "recv" /\ spc' = "recv"
          /\ conn = "open" /\ conn' = "open"
          /\ UNCHANGED <<attempt, ws_ref, close_code, slept, hopen, hlog, stop_event>>]_vars

\* the message after a dropped one gave an event, which is being handled
C35_Witness ==
  /\ dropped = {1} /\ hlog = <<2>> /\ hopen = 2
  /\ spc = "handling" /\ conn = "open"


(***************************************************************************)
(* Properties of a stop before the next connection                         *)
(***************************************************************************)
\* a step in which start() begins _download_all_snapshots
StartsSnapshots == spc # "snap" /\ spc' = "snap"

\* a step in which _run_once opens a streaming session
OpensSession == conn # "open" /\ conn' = "open"

\* C36: once stop() has set the stop event, start() begins no snapshot
\* download and opens no streaming session.
C36_NoSessionAfterStop ==
  [][stop_event => (~StartsSnapshots /\ ~OpensSession)]_vars

\* what start() does ensure: the loop head is not passed with the event set
C36_LoopHeadHonoursStop ==
  [][(stop_event /\ StartsSnapshots) => spc = "sleep"]_vars


(***************************************************************************)
(* Properties of malformed deltas                                          *)
(***************************************************************************)
\* the step applied the whole of the delta and moved the cursor to its last_id
WholeDelta ==
  /\ bids'["A"] = want'[1].bids
  /\ asks'["A"] = want'[1].asks
  /\ last_id'["A"] = want'[1].upto

\* C37: a delta is applied as a whole, with the cursor moved to its last_id, or
\* (dropped for a fault in one of its fields) leaves bids, asks and the cursor
\* exactly as they were.
C37_AtomicDelta ==
  [][HandlerStep =>
       IF outcome'.kind = "fault" THEN SameBook("A") ELSE WholeDelta]_vars

\* what holds of a dropped delta: the cursor stays and nothing is emitted
C37_FaultKeepsCursor ==
  [][(HandlerStep /\ outcome'.kind = "fault") =>
       (last_id' = last_id /\ out' = <<>>)]_vars


(***************************************************************************)
(* Properties of a failing eviction                                        *)
(***************************************************************************)
\* every key that was ever updated is returned by get_latest
EveryUpdatedKeyReturned ==
  \A k \in RouteKeys :
    lastcall[k] # <<>> => RedisGetLatest(hot, cold, k[1], k[2]) # <<>>

\* C38: when the batch write of an eviction fails, every entry selected for
\* eviction is still in the hot tier; hence, after any update calls and
\* evictions, every key ever updated is still returned by get_latest.
C38_EvictionLosesNoEntry ==
  /\ []EveryUpdatedKeyReturned
  /\ [][(nup' = nup + 1 /\ ~sev'[1].ok) =>
          \A k \in Victims(Written, sev'[1].later) : hot'[k] = Written[k]]_vars

\* with every batch written, no key is lost
C38_NoLossWhenWritten == EveryUpdatedKeyReturned


(***************************************************************************)
(* Properties of the Lock of a key                                         *)
(***************************************************************************)
\* the Lock of a key is held only by a call that is inside its delivery
HeldInsideDelivery ==
  \A k \in LockKeys :
    holder[k] # None =>
      /\ tcall[holder[k]].pc \in {"send", "retry_sleep"}
      /\ tcall[holder[k]].key = k

\* C40: the Lock of a key is released when a delivery ends, by success, by
\* giving up or by cancellation; so a call that waits for the Lock of a key
\* comes to attempt its alert, unless its own task is cancelled.
C40_LockReleased ==
  /\ []HeldInsideDelivery
  /\ \A t \in Tasks :
       (tcall[t].pc = "lock_wait") ~> (tcall[t].pc \in {"send", "cancelled"})

\* a call that waited attempts its alert with the Lock, after the call of
\* another task gave up and the task of a third was cancelled
C40_Witness ==
  \E t \in Tasks :
    /\ tcall[t].pc = "send" /\ tcall[t].waited /\ holder[tcall[t].key] = t
    /\ \E u \in Tasks \ {t} : tcall[u].res = "gave_up" /\ tcall[u].pc = "idle"
    /\ \E u \in Tasks \ {t} : tcall[u].res = "cancelled"

====
